---------------------------- MODULE Spec2Model ----------------------------
(***************************************************************************)
(* Mount Diablo Challenge race analysis: the results crawler               *)
(* (src/src/scraper.py), the year-replace store (src/src/database.py) and  *)
(* the update_year pipeline (src/update_year.py).                          *)
(*                                                                         *)
(* Text is modelled as a sequence of one-character strings, so that        *)
(* strip, split, int(), float(), isdigit and the date patterns are         *)
(* computed on characters as the code computes them.  Seconds are exact    *)
(* decimals held as integers in units of 1/Scale second (binary rounding   *)
(* of Python floats is not modelled).                                      *)
(***************************************************************************)
EXTENDS Integers, Sequences, FiniteSets, TLC

VARIABLES
    pc,            \* position of the running entry point
    years,         \* scrape_all_years: the list of years to crawl
    yi,            \* scrape_all_years: index of the year being crawled
    year,          \* scrape_year: the year argument
    soup,          \* scrape_year: the current page (NoPage when none)
    race_date,     \* scrape_year / get_race_date: the resolved date
    page_num,      \* scrape_year: loop counter
    page_results,  \* scrape_year: rows parsed from the current page
    all_results,   \* scrape_year: the year's accumulator
    results,       \* scrape_all_years: the accumulator over years
    requests,      \* requests issued for the current year, in order
    form_data,     \* form data of the last POST of the current year
    served,        \* per crawled year: what happened (history)
    log,           \* set of <<level, message>> emitted by the current call
    time_str,      \* parse_chip_time: the argument
    chip,          \* parse_chip_time: the outcome
    race_results,  \* table race_results, rows in insertion order
    weather_data,  \* table weather_data, rows in insertion order
    last_call,     \* the most recent store / pipeline call and its input
    repeated,      \* last_call repeats the call before it, input included
    prev_db,       \* when repeated: the tables as that earlier call left them
    calls,         \* number of calls made on the store
    args,          \* the arguments of the function under study
    ret            \* what it returned, once it has

vars == <<pc, years, yi, year, soup, race_date, page_num, page_results,
          all_results, results, requests, form_data, served, log,
          time_str, chip, race_results, weather_data,
          last_call, repeated, prev_db, calls, args, ret>>

crawlVars == <<years, yi, year, soup, race_date, page_num, page_results,
               all_results, results, requests, form_data, served>>
parseVars == <<time_str, chip>>
storeVars == <<race_results, weather_data, last_call, repeated, prev_db,
               calls>>
callVars == <<args, ret>>

-----------------------------------------------------------------------------
(* Bounds of the model *)

\* longest generated chip-time text
MaxLen == 5
\* most fragments in a generated page text
MaxFrags == 3
\* most calls made on the store in a run
MaxCalls == 3

-----------------------------------------------------------------------------
(* Optional values: Python None or a value *)

None == [some |-> FALSE, val |-> 0]
Some(v) == [some |-> TRUE, val |-> v]

RECURSIVE Pow10(_)
Pow10(n) == IF n = 0 THEN 1 ELSE 10 * Pow10(n - 1)

\* fractional decimal digits kept in a seconds value
FracDigits == MaxLen - 3
Scale == Pow10(FracDigits)

-----------------------------------------------------------------------------
(* Python str primitives on character sequences *)

Digit == {"0", "1", "2", "3", "4", "5", "6", "7", "8", "9"}
Space == {" ", "\t", "\n"}

DigitVal(c) ==
    CASE c = "0" -> 0 [] c = "1" -> 1 [] c = "2" -> 2 [] c = "3" -> 3
      [] c = "4" -> 4 [] c = "5" -> 5 [] c = "6" -> 6 [] c = "7" -> 7
      [] c = "8" -> 8 [] c = "9" -> 9

RECURSIVE LStrip(_)
LStrip(s) == IF s # <<>> /\ Head(s) \in Space THEN LStrip(Tail(s)) ELSE s

RECURSIVE RStrip(_)
RStrip(s) ==
    IF s # <<>> /\ s[Len(s)] \in Space
    THEN RStrip(SubSeq(s, 1, Len(s) - 1)) ELSE s

\* str.strip()
Strip(s) == RStrip(LStrip(s))

\* characters str.isdigit() accepts and int() refuses: "sup2" stands for
\* the superscript two
OtherDigit == {"sup2"}

\* str.isdigit(): non-empty and every character a digit
IsDigitStr(s) ==
    s # <<>> /\ \A i \in 1..Len(s) : s[i] \in Digit \cup OtherDigit

\* int(s) raises ValueError on a text str.isdigit() accepted
IntRaises(s) == \E i \in 1..Len(s) : s[i] \in OtherDigit

\* str.split(sep) for a one-character separator
RECURSIVE Split(_, _)
Split(s, sep) ==
    IF \A i \in 1..Len(s) : s[i] # sep
    THEN <<s>>
    ELSE LET k == CHOOSE i \in 1..Len(s) :
                     s[i] = sep /\ \A j \in 1..(i - 1) : s[j] # sep
         IN  <<SubSeq(s, 1, k - 1)>> \o Split(SubSeq(s, k + 1, Len(s)), sep)

RECURSIVE DigitsVal(_)
DigitsVal(s) ==
    IF s = <<>> THEN 0
    ELSE 10 * DigitsVal(SubSeq(s, 1, Len(s) - 1)) + DigitVal(s[Len(s)])

\* digits with single underscores between them, as int() and float() allow
DigitGroup(s) ==
    /\ s # <<>>
    /\ \A i \in 1..Len(s) : s[i] \in Digit \cup {"_"}
    /\ s[1] # "_" /\ s[Len(s)] # "_"
    /\ \A i \in 1..(Len(s) - 1) : ~(s[i] = "_" /\ s[i + 1] = "_")

DropUnderscores(s) == SelectSeq(s, LAMBDA c : c # "_")

Signed(s) == s # <<>> /\ Head(s) \in {"+", "-"}
Unsigned(s) == IF Signed(s) THEN Tail(s) ELSE s
SignOf(s) == IF s # <<>> /\ Head(s) = "-" THEN -1 ELSE 1

\* int(text) succeeds: optional blanks, optional sign, a digit group
IntOk(s) == DigitGroup(Unsigned(Strip(s)))
IntVal(s) == SignOf(Strip(s)) * DigitsVal(DropUnderscores(Unsigned(Strip(s))))

\* float(text) succeeds, plain decimal form: optional blanks, optional sign,
\* digits with an optional point and at least one digit.  The exponent form
\* and the inf / nan words need letters the generated texts do not contain.
FloatOk(s) ==
    LET u == Unsigned(Strip(s))
        p == Split(u, ".")
    IN  /\ Len(p) \in {1, 2}
        /\ p[1] = <<>> \/ DigitGroup(p[1])
        /\ Len(p) = 2 => (p[2] = <<>> \/ DigitGroup(p[2]))
        /\ \E i \in 1..Len(p) : p[i] # <<>>

\* the value of float(text) in units of 1/Scale
FloatVal(s) ==
    LET u == Unsigned(Strip(s))
        p == Split(u, ".")
        w == DropUnderscores(p[1])
        f == IF Len(p) = 2 THEN DropUnderscores(p[2]) ELSE <<>>
    IN  SignOf(Strip(s))
          * (DigitsVal(w) * Scale + DigitsVal(f) * Pow10(FracDigits - Len(f)))


-----------------------------------------------------------------------------
(* DiabloScraper.parse_chip_time *)

\* a slip: the hours weighted like minutes
ChipTimeTry_hours_as_minutes(s) ==
    LET parts == Split(s, ":")
    IN  IF Len(parts) = 3
        THEN IF IntOk(parts[1]) /\ IntOk(parts[2]) /\ FloatOk(parts[3])
             THEN [exc |-> FALSE,
                   ret |-> Some(IntVal(parts[1]) * 60 * Scale
                                + IntVal(parts[2]) * 60 * Scale
                                + FloatVal(parts[3]))]
             ELSE [exc |-> TRUE, ret |-> None]
        ELSE IF Len(parts) = 2
        THEN IF IntOk(parts[1]) /\ FloatOk(parts[2])
             THEN [exc |-> FALSE,
                   ret |-> Some(IntVal(parts[1]) * 60 * Scale
                                + FloatVal(parts[2]))]
             ELSE [exc |-> TRUE, ret |-> None]
        ELSE [exc |-> FALSE, ret |-> None]

\* the body of the try block: the value returned, or an exception raised by
\* int() / float(), or neither (no branch taken, the function falls off its end)
ChipTimeTry(s) ==
    LET parts == Split(s, ":")
    IN  IF Len(parts) = 3
        THEN IF IntOk(parts[1]) /\ IntOk(parts[2]) /\ FloatOk(parts[3])
             THEN [exc |-> FALSE,
                   ret |-> Some(IntVal(parts[1]) * 3600 * Scale
                                + IntVal(parts[2]) * 60 * Scale
                                + FloatVal(parts[3]))]
             ELSE [exc |-> TRUE, ret |-> None]
        ELSE IF Len(parts) = 2
        THEN IF IntOk(parts[1]) /\ FloatOk(parts[2])
             THEN [exc |-> FALSE,
                   ret |-> Some(IntVal(parts[1]) * 60 * Scale
                                + FloatVal(parts[2]))]
             ELSE [exc |-> TRUE, ret |-> None]
        ELSE [exc |-> FALSE, ret |-> None]

\* ret: the value returned; log: what it logged; raised: an exception left it
parse_chip_time(s) ==
    IF s = <<>> \/ Strip(s) = <<>>
    THEN [ret |-> None, log |-> {}, raised |-> FALSE]
    ELSE LET t == ChipTimeTry(Strip(s))
         IN  IF t.exc
             THEN [ret |-> None,
                   log |-> {<<"error", "Error parsing chip time">>},
                   raised |-> FALSE]
             ELSE [ret |-> t.ret, log |-> {}, raised |-> FALSE]

-----------------------------------------------------------------------------
(* Pages.  A fetched page is what BeautifulSoup gives the crawler:         *)
(*   table  - the page has <table id="resultsTable">                      *)
(*   trs    - the table's <tr> rows, each the texts of its <td> cells      *)
(*   next   - the page has an anchor whose text is 'Next >'               *)
(*   inputs - the page's <input> elements                                 *)
(*   text   - soup.get_text()                                             *)

NoPage == [none |-> TRUE]
IsPage(p) == "table" \in DOMAIN p

\* cells of a results row, 0-based as in the code
Cell(cells, i) == cells[i + 1]

\* one data row of parse_results_table (lines 131-160)
ParseRow(cells, y) ==
    LET place == Strip(Cell(cells, 0))
        age == Strip(Cell(cells, 6))
        chip_time_str == Strip(Cell(cells, 9))
    IN  [year |-> y,
         place |-> IF IsDigitStr(place) THEN Some(DigitsVal(place)) ELSE None,
         name |-> Strip(Cell(cells, 1)),
         team |-> Strip(Cell(cells, 2)),
         city_state |-> Strip(Cell(cells, 3)),
         gender |-> Strip(Cell(cells, 4)),
         gender_place |-> Strip(Cell(cells, 5)),
         age |-> IF IsDigitStr(age) THEN Some(DigitsVal(age)) ELSE None,
         age_place |-> Strip(Cell(cells, 7)),
         chip_time_str |-> chip_time_str,
         chip_time_seconds |-> parse_chip_time(chip_time_str).ret,
         pace |-> Strip(Cell(cells, 10)),
         start_time |-> Strip(Cell(cells, 12))]

\* a slip: the except branch of the row ends the loop (break for continue)
row_error_continues_never == FALSE
\* the except branch of lines 164-166 goes on with the next row
row_error_continues == TRUE

\* the try block of lines 130-162 raises: from parse_chip_time, or from
\* int() on a place or age that isdigit() let through
RowRaises(cells) ==
    \/ parse_chip_time(Strip(Cell(cells, 9))).raised
    \/ \E i \in {0, 6} : /\ IsDigitStr(Strip(Cell(cells, i)))
                         /\ IntRaises(Strip(Cell(cells, i)))

RECURSIVE ParseRows(_, _)
ParseRows(trs, y) ==
    IF trs = <<>> THEN <<>>
    ELSE IF Len(Head(trs)) < 13 THEN ParseRows(Tail(trs), y)
    ELSE IF RowRaises(Head(trs))
         THEN IF row_error_continues THEN ParseRows(Tail(trs), y) ELSE <<>>
    ELSE <<ParseRow(Head(trs), y)>> \o ParseRows(Tail(trs), y)

RowLogs(trs) ==
    UNION {parse_chip_time(Strip(Cell(trs[i], 9))).log :
             i \in {j \in 1..Len(trs) : Len(trs[j]) >= 13}}

\* DiabloScraper.parse_results_table: the rows returned and what was logged
parse_results_table(page, y) ==
    IF ~page.table
    THEN [rows |-> <<>>, log |-> {<<"warning", "Results table not found">>}]
    ELSE LET data == IF page.trs = <<>> THEN <<>> ELSE Tail(page.trs)
         IN  [rows |-> ParseRows(data, y),
              log |-> RowLogs(data)
                        \cup {<<"error", "Error parsing row">> :
                                i \in {j \in 1..Len(data) :
                                         /\ Len(data[j]) >= 13
                                         /\ RowRaises(data[j])}}]


-----------------------------------------------------------------------------
(* DiabloScraper.get_race_date: the two patterns of re.findall and the     *)
(* three formats of datetime.strptime, on characters                       *)

UpperCase == <<"A", "B", "C", "D", "E", "F", "G", "H", "I", "J", "K", "L", "M",
               "N", "O", "P", "Q", "R", "S", "T", "U", "V", "W", "X", "Y", "Z">>
LowerCase == <<"a", "b", "c", "d", "e", "f", "g", "h", "i", "j", "k", "l", "m",
               "n", "o", "p", "q", "r", "s", "t", "u", "v", "w", "x", "y", "z">>
Letter == {UpperCase[i] : i \in 1..26} \cup {LowerCase[i] : i \in 1..26}

\* \w of the patterns
WordChar == Letter \cup Digit \cup {"_"}

ToLower(c) ==
    IF \E i \in 1..26 : UpperCase[i] = c
    THEN LowerCase[CHOOSE i \in 1..26 : UpperCase[i] = c]
    ELSE c

LowerStr(s) == [i \in 1..Len(s) |-> ToLower(s[i])]

\* number of characters of s from position i on that lie in set C
RECURSIVE RunLen(_, _, _)
RunLen(s, i, C) ==
    IF i <= Len(s) /\ s[i] \in C THEN 1 + RunLen(s, i + 1, C) ELSE 0

At(s, i, c) == i <= Len(s) /\ s[i] = c

\* \d{1,2} followed by the character c: the number of digits taken, or 0
Digits12(s, i, c) ==
    LET n == RunLen(s, i, Digit)
    IN  IF n >= 1 /\ n <= 2 /\ At(s, i + n, c) THEN n ELSE 0

\* \d{4} at position i
Digits4(s, i) == RunLen(s, i, Digit) >= 4

\* r'(\w+ \d{1,2}, \d{4})' matched at position i: the position after the
\* match, or 0 when there is no match at i
MatchLong(s, i) ==
    LET w == RunLen(s, i, WordChar)
        d == Digits12(s, i + w + 1, ",")
        e == i + w + 1 + d + 2
    IN  IF w >= 1 /\ At(s, i + w, " ") /\ d >= 1 /\ At(s, e - 1, " ")
           /\ Digits4(s, e)
        THEN e + 4 ELSE 0

\* r'(\d{1,2}/\d{1,2}/\d{4})' matched at position i
MatchSlash(s, i) ==
    LET a == Digits12(s, i, "/")
        b == Digits12(s, i + a + 1, "/")
        e == i + a + 1 + b + 1
    IN  IF a >= 1 /\ b >= 1 /\ Digits4(s, e) THEN e + 4 ELSE 0

MatchAt(pattern, s, i) ==
    IF pattern = "long" THEN MatchLong(s, i) ELSE MatchSlash(s, i)

\* re.findall(pattern, s): the non-overlapping matches, leftmost first
RECURSIVE FindAllFrom(_, _, _)
FindAllFrom(pattern, s, i) ==
    IF i > Len(s) THEN <<>>
    ELSE LET e == MatchAt(pattern, s, i)
         IN  IF e = 0 THEN FindAllFrom(pattern, s, i + 1)
             ELSE <<SubSeq(s, i, e - 1)>> \o FindAllFrom(pattern, s, e)

FindAll(pattern, s) == FindAllFrom(pattern, s, 1)

\* a slip: the slash pattern scanned first
date_patterns_slash_first == <<"slash", "long">>

date_patterns == <<"long", "slash">>
date_formats == <<"%B %d, %Y", "%m/%d/%Y", "%b %d, %Y">>

MonthNames == <<<<"j", "a", "n", "u", "a", "r", "y">>,
               <<"f", "e", "b", "r", "u", "a", "r", "y">>,
               <<"m", "a", "r", "c", "h">>,
               <<"a", "p", "r", "i", "l">>,
               <<"m", "a", "y">>,
               <<"j", "u", "n", "e">>,
               <<"j", "u", "l", "y">>,
               <<"a", "u", "g", "u", "s", "t">>,
               <<"s", "e", "p", "t", "e", "m", "b", "e", "r">>,
               <<"o", "c", "t", "o", "b", "e", "r">>,
               <<"n", "o", "v", "e", "m", "b", "e", "r">>,
               <<"d", "e", "c", "e", "m", "b", "e", "r">>>>

\* month number of a full (%B) or abbreviated (%b) name, any case; 0 if none
MonthOf(word, abbreviated) ==
    LET w == LowerStr(word)
        name(i) == IF abbreviated THEN SubSeq(MonthNames[i], 1, 3)
                   ELSE MonthNames[i]
    IN  IF \E i \in 1..12 : name(i) = w
        THEN CHOOSE i \in 1..12 : name(i) = w ELSE 0

IsLeap(y) == (y % 4 = 0 /\ y % 100 # 0) \/ y % 400 = 0

DaysIn(m, y) ==
    IF m = 2 THEN (IF IsLeap(y) THEN 29 ELSE 28)
    ELSE IF m \in {4, 6, 9, 11} THEN 30 ELSE 31

\* datetime(y, m, d) exists
ValidDate(y, m, d) == y >= 1 /\ m \in 1..12 /\ d >= 1 /\ d <= DaysIn(m, y)

Date(y, m, d) == [y |-> y, m |-> m, d |-> d]

\* '%B %d, %Y' and '%b %d, %Y': a month name, blanks, a day of one or two
\* digits, a comma, blanks, four digits, and nothing else
StrptimeLong(text, abbreviated) ==
    LET w == RunLen(text, 1, Letter)
        b == RunLen(text, w + 1, Space)
        d == Digits12(text, w + b + 1, ",")
        c == RunLen(text, w + b + d + 2, Space)
        e == w + b + d + 2 + c
        mon == MonthOf(SubSeq(text, 1, w), abbreviated)
        day == DigitsVal(SubSeq(text, w + b + 1, w + b + d))
        yr == DigitsVal(SubSeq(text, e, e + 3))
    IN  IF w >= 1 /\ b >= 1 /\ d >= 1 /\ c >= 1
           /\ RunLen(text, e, Digit) = 4 /\ Len(text) = e + 3
           /\ mon # 0 /\ ValidDate(yr, mon, day)
        THEN Some(Date(yr, mon, day)) ELSE None

\* '%m/%d/%Y'
StrptimeSlash(text) ==
    LET a == Digits12(text, 1, "/")
        b == Digits12(text, a + 2, "/")
        e == a + b + 3
        mon == DigitsVal(SubSeq(text, 1, a))
        day == DigitsVal(SubSeq(text, a + 2, a + b + 1))
        yr == DigitsVal(SubSeq(text, e, e + 3))
    IN  IF a >= 1 /\ b >= 1 /\ RunLen(text, e, Digit) = 4
           /\ Len(text) = e + 3 /\ ValidDate(yr, mon, day)
        THEN Some(Date(yr, mon, day)) ELSE None

\* datetime.strptime(text, fmt).date(), None standing for ValueError
Strptime(text, fmt) ==
    IF fmt = "%B %d, %Y" THEN StrptimeLong(text, FALSE)
    ELSE IF fmt = "%m/%d/%Y" THEN StrptimeSlash(text)
    ELSE StrptimeLong(text, TRUE)

\* lines 78-83: the formats tried in order on one match
RECURSIVE TryFormats(_, _)
TryFormats(match, fmts) ==
    IF fmts = <<>> THEN None
    ELSE IF Strptime(match, Head(fmts)).some THEN Strptime(match, Head(fmts))
    ELSE TryFormats(match, Tail(fmts))

\* lines 75-85: the matches of one pattern tried in order
RECURSIVE TryMatches(_)
TryMatches(matches) ==
    IF matches = <<>> THEN None
    ELSE IF TryFormats(Head(matches), date_formats).some
    THEN TryFormats(Head(matches), date_formats)
    ELSE TryMatches(Tail(matches))

\* lines 71-85: the patterns tried in order
RECURSIVE TryPatterns(_, _)
TryPatterns(page_text, patterns) ==
    IF patterns = <<>> THEN None
    ELSE IF TryMatches(FindAll(Head(patterns), page_text)).some
    THEN TryMatches(FindAll(Head(patterns), page_text))
    ELSE TryPatterns(page_text, Tail(patterns))

get_race_date(page) ==
    LET found == TryPatterns(page.text, date_patterns)
    IN  [ret |-> found,
         log |-> IF found.some THEN {}
                 ELSE {<<"warning", "Could not extract race date from page">>},
         raised |-> FALSE]


-----------------------------------------------------------------------------
(* The results source.  The content of page n of year y is fixed by (y, n) *)
(* so that rows of different pages differ; what the source answers to a    *)
(* request is chosen freely among these kinds:                             *)
(*   more    - result rows and a 'Next >' link                            *)
(*   last    - result rows, no link                                       *)
(*   empty   - the table with its header and one short row, and a link    *)
(*   notable - no results table (an error page, say)                      *)
(*   fail    - the request fails (transport error; HTTP error for the GET)*)

\* safety limit of scrape_year
max_pages == 100
\* pages a year has at most when several years are crawled in one run
MaxSitePages == 3

RaceYears == {2024, 2025}
YearLists == {<<2024>>, <<2025>>, <<2024, 2025>>, <<2025, 2024>>,
              <<2024, 2024>>, <<2025, 2024, 2025>>}

PageKinds == {"more", "last", "empty", "notable"}
Responses == PageKinds \cup {"fail"}

RECURSIVE DigitsOf(_)
DigitsOf(n) ==
    IF n < 10 THEN <<CHOOSE c \in Digit : DigitVal(c) = n>>
    ELSE DigitsOf(n \div 10) \o <<CHOOSE c \in Digit : DigitVal(c) = n % 10>>

RowsOnPage(n) == IF n % 2 = 0 THEN 2 ELSE 1

\* the j-th result row of page n: place, name, .., age, .., chip time, ..
ServerRow(y, n, j) ==
    <<DigitsOf(2 * n + j), <<"r">> \o DigitsOf(n) \o <<" ">>, <<>>, <<>>,
      <<>>, <<>>, IF j = 1 THEN <<"4", "0">> ELSE <<"-">>, <<>>, <<>>,
      IF j = 1 THEN <<"1", ":", "3">> ELSE <<" ", "x">>, <<>>, <<>>, <<>>>>

HeaderRow == <<>>
ShortRow == <<<<"1">>, <<"n">>>>

TextWithDate == <<"R", "a", "c", "e", ":", " ", "O", "c", "t", "o", "b", "e", "r", " ", "6", ",", " ", "2", "0", "2", "4">>
TextNoDate == <<"R", "e", "s", "u", "l", "t", "s">>
TextOtherDate == <<"P", "a", "g", "e", " ", "o", "f", " ", "1", "0", "/", "5", "/", "2", "0", "2", "3">>
LandingTexts == {TextWithDate, TextNoDate}

ServerInputs(n) ==
    <<[name |-> "__VIEWSTATE", has_value |-> TRUE, value |-> ToString(n)],
      [name |-> "", has_value |-> TRUE, value |-> "anonymous"],
      [name |-> "__EVENTTARGET", has_value |-> TRUE, value |-> "stale"],
      [name |-> "search", has_value |-> FALSE, value |-> ""],
      [name |-> "__VIEWSTATE", has_value |-> TRUE, value |-> ToString(n + 1)]>>

ServerPage(y, n, kind, text) ==
    [table |-> kind # "notable",
     trs |-> IF kind \in {"more", "last"}
             THEN <<HeaderRow>> \o [j \in 1..RowsOnPage(n) |-> ServerRow(y, n, j)]
             ELSE IF kind = "empty" THEN <<HeaderRow, ShortRow>> ELSE <<>>,
     next |-> kind \in {"more", "empty"},
     inputs |-> ServerInputs(n),
     text |-> text]

-----------------------------------------------------------------------------
(* DiabloScraper.extract_viewstate and the form of a pagination POST *)

InputNames(page) ==
    {page.inputs[i].name : i \in 1..Len(page.inputs)} \ {""}

\* the dict built by the loop: a later input of the same name wins
extract_viewstate(page) ==
    [nm \in InputNames(page) |->
        LET last == CHOOSE i \in 1..Len(page.inputs) :
                        /\ page.inputs[i].name = nm
                        /\ \A j \in (i + 1)..Len(page.inputs) :
                              page.inputs[j].name # nm
        IN  IF page.inputs[last].has_value THEN page.inputs[last].value ELSE ""]

\* a slip: the control fields added only where the page has no such input
NextPageForm_page_wins(page) ==
    [nm \in DOMAIN extract_viewstate(page)
              \cup {"__EVENTTARGET", "__EVENTARGUMENT"} |->
        IF nm \in DOMAIN extract_viewstate(page)
        THEN extract_viewstate(page)[nm]
        ELSE IF nm = "__EVENTTARGET" THEN "ctl00$ContentPlaceHolder1$btnNext"
        ELSE ""]

\* lines 216-221
NextPageForm(page) ==
    [nm \in DOMAIN extract_viewstate(page)
              \cup {"__EVENTTARGET", "__EVENTARGUMENT"} |->
        IF nm = "__EVENTTARGET" THEN "ctl00$ContentPlaceHolder1$btnNext"
        ELSE IF nm = "__EVENTARGUMENT" THEN ""
        ELSE extract_viewstate(page)[nm]]

NoPost == [none |-> TRUE]


-----------------------------------------------------------------------------
(* Idle values of the variable groups *)

NoChip == [pending |-> TRUE]
NoCall == [op |-> "none"]
EmptyDb == [race_results |-> <<>>, weather_data |-> <<>>]

CrawlIdle ==
    /\ years = <<>> /\ yi = 0 /\ year = 0 /\ soup = NoPage
    /\ race_date = None /\ page_num = 0 /\ page_results = <<>>
    /\ all_results = <<>> /\ results = <<>> /\ requests = <<>>
    /\ form_data = NoPost /\ served = <<>>

ParseIdle == time_str = <<>> /\ chip = NoChip

NoArgs == [op |-> "none"]
NotReturned == [pending |-> TRUE]
CallIdle == args = NoArgs /\ ret = NotReturned

StoreIdle ==
    /\ race_results = <<>> /\ weather_data = <<>>
    /\ last_call = NoCall /\ repeated = FALSE /\ prev_db = EmptyDb
    /\ calls = 0

-----------------------------------------------------------------------------
(* DiabloScraper.scrape_all_years and scrape_year *)

\* pages a year of the source can have in this run
SitePages == IF Len(years) = 1 THEN max_pages + 1 ELSE MaxSitePages

\* what the source may answer when page n is requested
KindsAt(n) == IF n < SitePages THEN Responses ELSE Responses \ {"more"}

\* lines 203-204: race_date added to every row of the page
\* a variant that resolves the date again from the page being parsed
WithRaceDate_of_page(rows, d) ==
    [i \in 1..Len(rows) |-> [race_date |-> get_race_date(soup).ret] @@ rows[i]]

WithRaceDate(rows, d) == [i \in 1..Len(rows) |-> [race_date |-> d] @@ rows[i]]

\* the history of the year being crawled: a response received, the way it ended
Answered(kind) == [served EXCEPT ![Len(served)].kinds = Append(@, kind)]
Accumulated(hist) == [hist EXCEPT ![Len(hist)].parsed = @ + 1]
Ended(hist, how) == [hist EXCEPT ![Len(hist)].end = how]

\* soup.find('a', text='Next >'), line 210
next_link(page) == page.next

\* a slip: the list is replaced by the new rows instead of extended
extend_replacing(list, more) == more

\* list.extend, lines 206 and 246
extend(list, more) == list \o more

\* a slip: without the try, the exception leaves scrape_all_years
post_error_propagates == "done"

\* where a failed POST leaves the crawl: the except clause breaks out of the
\* loop and scrape_year returns, lines 229-231
post_error == "ret"

\* the loop condition, line 193
in_limit(n) == n <= max_pages

\* if not page_results, line 198; a slip that never takes the branch
no_more_results_never(rows) == FALSE
no_more_results(rows) == rows = <<>>

ScrapedTotal == <<"info", "Scraped total results for year">>

\* scrape_all_years line 245 calling scrape_year, lines 172-190: the landing
\* page is fetched with get_page and the race date resolved
ScrapeYearGet ==
    /\ pc = "next_year"
    /\ yi <= Len(years)
    /\ \E kind \in KindsAt(1), text \in LandingTexts :
          LET y == years[yi]
              page == ServerPage(y, 1, kind, text)
              found == get_race_date(page)
              entry == [year |-> y, date |-> None, kinds |-> <<kind>>,
                        parsed |-> 0, end |-> ""]
          IN  /\ year' = y
              /\ all_results' = <<>>
              /\ page_results' = <<>>
              /\ requests' = <<"GET">>
              /\ form_data' = NoPost
              /\ IF kind = "fail"
                 THEN /\ soup' = NoPage
                      /\ race_date' = None
                      /\ page_num' = 0
                      /\ log' = {<<"info", "Scraping year">>,
                                 <<"error", "Error fetching page">>,
                                 <<"error", "Failed to get page for year">>}
                      /\ served' = Append(served,
                                          [entry EXCEPT !.end = "failed"])
                      /\ pc' = "ret"
                 ELSE /\ soup' = page
                      /\ race_date' = found.ret
                      /\ page_num' = 1
                      /\ log' = {<<"info", "Scraping year">>,
                                 <<"info", "Race date for year">>}
                                  \cup found.log
                      /\ served' = Append(served,
                                          [entry EXCEPT !.date = found.ret])
                      /\ pc' = "loop"
    /\ UNCHANGED <<years, yi, results, parseVars, storeVars, callVars>>

\* one iteration of the while loop, lines 193-231
ScrapeYearPage ==
    /\ pc = "loop"
    /\ in_limit(page_num)
    /\ LET parsed == parse_results_table(soup, year)
           log1 == log \cup {<<"info", "Scraping page">>} \cup parsed.log
       IN  IF no_more_results(parsed.rows)
           THEN \* lines 198-200
                /\ page_results' = <<>>
                /\ log' = log1 \cup {<<"info", "No more results found on page">>,
                                     ScrapedTotal}
                /\ served' = Ended(served, "exhausted")
                /\ pc' = "ret"
                /\ UNCHANGED <<soup, page_num, all_results, requests, form_data>>
           ELSE /\ page_results' = WithRaceDate(parsed.rows, race_date)
                /\ all_results' = extend(all_results, page_results')
                /\ IF ~next_link(soup)
                   THEN \* lines 211-213
                        /\ log' = log1 \cup {<<"info", "Found results on page">>,
                                             <<"info", "No more pages for year">>,
                                             ScrapedTotal}
                        /\ served' = Ended(Accumulated(served), "exhausted")
                        /\ pc' = "ret"
                        /\ UNCHANGED <<soup, page_num, requests, form_data>>
                   ELSE \* lines 216-231: the POST and its response
                        /\ requests' = Append(requests, "POST")
                        /\ form_data' = [url_year |-> year,
                                         data |-> NextPageForm(soup)]
                        /\ \E kind \in KindsAt(page_num + 1) :
                              IF kind = "fail"
                              THEN /\ log' = log1 \cup
                                        {<<"info", "Found results on page">>,
                                         <<"error", "Error getting next page">>,
                                         ScrapedTotal}
                                   /\ served' = Ended(Accumulated(Answered(kind)),
                                                    "failed")
                                   /\ pc' = post_error
                                   /\ UNCHANGED <<soup, page_num>>
                              ELSE /\ soup' = ServerPage(year, page_num + 1,
                                                         kind, TextOtherDate)
                                   /\ page_num' = page_num + 1
                                   /\ log' = log1 \cup
                                        {<<"info", "Found results on page">>}
                                   /\ served' = Accumulated(Answered(kind))
                                   /\ pc' = "loop"
    /\ UNCHANGED <<years, yi, year, race_date, results, parseVars, storeVars, callVars>>

\* the loop condition page_num <= max_pages is false: line 233
ScrapeYearLimit ==
    /\ pc = "loop"
    /\ ~in_limit(page_num)
    /\ log' = log \cup {ScrapedTotal}
    /\ served' = Ended(served, "truncated")
    /\ pc' = "ret"
    /\ UNCHANGED <<years, yi, year, soup, race_date, page_num, page_results,
                   all_results, results, requests, form_data,
                   parseVars, storeVars, callVars>>

\* scrape_year has returned all_results: scrape_all_years lines 246-248
ScrapeYearReturn ==
    /\ pc = "ret"
    /\ results' = extend(results, all_results)
    /\ yi' = yi + 1
    /\ year' = 0 /\ soup' = NoPage /\ race_date' = None /\ page_num' = 0
    /\ page_results' = <<>> /\ all_results' = <<>> /\ requests' = <<>>
    /\ form_data' = NoPost
    /\ log' = {<<"info", "Total results so far">>}
    /\ pc' = "next_year"
    /\ UNCHANGED <<years, served, parseVars, storeVars, callVars>>

\* scrape_all_years lines 250-251
ScrapeAllReturn ==
    /\ pc = "next_year"
    /\ yi > Len(years)
    /\ log' = {<<"info", "Scraping complete">>}
    /\ pc' = "done"
    /\ UNCHANGED <<crawlVars, parseVars, storeVars, callVars>>

Init ==
    /\ pc = "next_year"
    /\ years \in YearLists
    /\ yi = 1
    /\ year = 0 /\ soup = NoPage /\ race_date = None /\ page_num = 0
    /\ page_results = <<>> /\ all_results = <<>> /\ results = <<>>
    /\ requests = <<>> /\ form_data = NoPost /\ served = <<>>
    /\ log = {}
    /\ ParseIdle /\ StoreIdle /\ CallIdle

Next ==
    \/ ScrapeYearGet
    \/ ScrapeYearPage
    \/ ScrapeYearLimit
    \/ ScrapeYearReturn
    \/ ScrapeAllReturn

Spec == Init /\ [][Next]_vars



-----------------------------------------------------------------------------
(* Claims about the crawl *)

\* the rows of pages 1..k of year y as parse_results_table gives them, each
\* carrying race date d, in page order
PageRows ==
    [y \in RaceYears, n \in 1..max_pages |->
        parse_results_table(ServerPage(y, n, "last", TextNoDate), y).rows]

RECURSIVE YearRows(_, _, _)
YearRows(y, k, d) ==
    IF k = 0 THEN <<>>
    ELSE YearRows(y, k - 1, d) \o WithRaceDate(PageRows[y, k], d)

Current == served[Len(served)]

\* the source served N pages with rows, all but the last carrying the link
ServedExactly(N) ==
    /\ served # <<>>
    /\ Len(Current.kinds) = N
    /\ \A i \in 1..(N - 1) : Current.kinds[i] = "more"
    /\ Current.kinds[N] = "last"

\* C1: when the source serves N pages with rows (N <= 100), pages 1..N-1 with
\* the 'Next >' link and page N without it, scrape_year issues exactly N
\* requests, one GET and then N-1 POSTs, stops, and returns the rows of the
\* N pages in page order.
C1_ExactlyNFetches ==
    \A N \in {n \in 1..max_pages : served # <<>> /\ n = Len(Current.kinds)} :
        (pc = "ret" /\ ServedExactly(N)) =>
            /\ Len(requests) = N
            /\ requests[1] = "GET"
            /\ \A i \in 2..N : requests[i] = "POST"
            /\ Current.end = "exhausted"
            /\ all_results = YearRows(year, N, race_date)

\* C1 witness: three pages, the third without the link, all rows returned
C1_Witness ==
    /\ pc = "ret" /\ ServedExactly(3)
    /\ requests = <<"GET", "POST", "POST">>
    /\ Len(all_results) = 4

\* C2 (bounds): per year at most 101 requests are issued and at most 100
\* pages are parsed and accumulated, whatever the source answers.
C2_Bounded ==
    /\ Len(requests) <= max_pages + 1
    /\ page_num <= max_pages + 1
    /\ served # <<>> => Current.parsed <= max_pages
    /\ (pc = "ret" /\ served # <<>> /\ Current.end = "truncated") =>
          /\ Len(requests) = max_pages + 1
          /\ Current.parsed = max_pages
          /\ all_results = YearRows(year, max_pages, race_date)


\* messages every crawl of a year can log without having been cut short
OrdinaryMessages ==
    {<<"info", "Scraping year">>, <<"info", "Race date for year">>,
     <<"warning", "Could not extract race date from page">>,
     <<"info", "Scraping page">>, <<"info", "Found results on page">>,
     <<"error", "Error parsing chip time">>, ScrapedTotal}

\* C2: the crawl of a year is bounded by the page limit, and when the limit
\* cuts it short the abort is logged as a truncation.
C2_TruncationLogged ==
    /\ C2_Bounded
    /\ (pc = "ret" /\ served # <<>> /\ Current.end = "truncated") =>
          log \ OrdinaryMessages # {}

RECURSIVE RowsOfYears(_)
RowsOfYears(hist) ==
    IF hist = <<>> THEN <<>>
    ELSE RowsOfYears(SubSeq(hist, 1, Len(hist) - 1))
           \o YearRows(hist[Len(hist)].year,
                       hist[Len(hist)].parsed, hist[Len(hist)].date)

\* C3: a transport failure on any page of a year ends only that year's
\* crawl: the rows of its pages parsed before the failure are returned, every
\* year of the list is crawled, and the result holds the rows of all years in
\* the order of the list.
C3_FailureEndsOnlyThatYear ==
    /\ (pc = "ret" /\ Current.end = "failed") =>
          all_results = YearRows(year, Current.parsed, race_date)
    /\ pc = "next_year" =>
          /\ Len(served) = yi - 1
          /\ results = RowsOfYears(served)
    /\ pc = "done" =>
          /\ Len(served) = Len(years)
          /\ \A i \in 1..Len(years) : served[i].year = years[i]
          /\ results = RowsOfYears(served)

\* C3 witness: a year whose second request failed kept its first page, and
\* the year after it was crawled and contributed rows
C3_Witness ==
    /\ pc = "done"
    /\ \E i \in 1..(Len(served) - 1) :
          /\ served[i].end = "failed"
          /\ served[i].kinds = <<"more", "fail">>
          /\ served[i + 1].parsed >= 1
          /\ Len(results) >= 2


-----------------------------------------------------------------------------
(* parse_chip_time and parse_results_table on generated cell texts *)

\* characters of the generated texts: digits, the separators, a sign, a
\* blank and a letter
Chars == {"1", "3", ":", ".", "-", " ", "x"}

GenTexts == UNION {[1..n -> Chars] : n \in 0..MaxLen}

Text_1_02_03_5 == <<"1", ":", "0", "2", ":", "0", "3", ".", "5">>
Text_5_30 == <<"5", ":", "3", "0">>
Text_bad == <<"b", "a", "d">>
Text_four == <<"1", ":", "2", ":", "3", ":", "4">>
Text_minus == <<"-", "1", ":", "3", "0">>

Texts == GenTexts \cup {Text_1_02_03_5, Text_5_30, Text_bad, Text_four, Text_minus}

\* a results page whose one data row has the given place and chip-time cells
CellPage(place, chip_text) ==
    [table |-> TRUE,
     trs |-> <<HeaderRow,
               <<place, <<"n">>, <<>>, <<>>, <<>>, <<>>, <<"4", "0">>, <<>>,
                 <<>>, chip_text, <<>>, <<>>, <<>>>>>>,
     next |-> FALSE,
     inputs |-> <<>>,
     text |-> <<>>]

\* parse_chip_time(time_str) is called
ParseChipTime ==
    /\ pc = "parse"
    /\ chip' = parse_chip_time(time_str)
    /\ log' = chip'.log
    /\ pc' = "parsed"
    /\ UNCHANGED <<crawlVars, time_str, storeVars, callVars>>

\* parse_results_table is called on a page whose row has time_str as its
\* chip-time cell
ParseTable ==
    /\ pc = "parse"
    /\ \E place \in {<<"7">>, <<"x">>} :
          /\ soup' = CellPage(place, time_str)
          /\ year' = 2024
          /\ page_results' = parse_results_table(soup', year').rows
          /\ log' = parse_results_table(soup', year').log
    /\ pc' = "rows"
    /\ UNCHANGED <<years, yi, race_date, page_num, all_results, results,
                   requests, form_data, served, parseVars, storeVars, callVars>>

InitParse ==
    /\ pc = "parse"
    /\ time_str \in Texts
    /\ chip = NoChip
    /\ CrawlIdle /\ StoreIdle /\ CallIdle
    /\ log = {}

NextParse == ParseChipTime \/ ParseTable

SpecParse == InitParse /\ [][NextParse]_vars

Segments == Split(Strip(time_str), ":")

\* C7: a text whose trimmed form is M:S with integer M and numeric S gives
\* M*60 + S, and H:M:S gives H*3600 + M*60 + S; '1:02:03.5' gives 3723.5 and
\* '5:30' gives 330.
C7_ChipTimeValue ==
    pc = "parsed" =>
        /\ (Len(Segments) = 2 /\ IntOk(Segments[1]) /\ FloatOk(Segments[2])) =>
              /\ chip.ret.some
              /\ chip.ret.val = IntVal(Segments[1]) * 60 * Scale
                                  + FloatVal(Segments[2])
        /\ (Len(Segments) = 3 /\ IntOk(Segments[1]) /\ IntOk(Segments[2])
              /\ FloatOk(Segments[3])) =>
              /\ chip.ret.some
              /\ chip.ret.val = (IntVal(Segments[1]) * 3600
                                   + IntVal(Segments[2]) * 60) * Scale
                                  + FloatVal(Segments[3])
        /\ time_str = Text_1_02_03_5 =>
              chip.ret = Some(3723 * Scale + 5 * (Scale \div 10))
        /\ time_str = Text_5_30 => chip.ret = Some(330 * Scale)

\* C7 witness: an H:M:S text with a fraction has been parsed to its value
C7_Witness ==
    /\ pc = "parsed"
    /\ time_str = Text_1_02_03_5
    /\ chip.ret.some /\ chip.ret.val > 3723 * Scale

\* a text that is not a chip time: no segment pair or triple, or a segment
\* that is not a number
ParseFailure ==
    \/ Len(Segments) \notin {2, 3}
    \/ \E i \in 1..(Len(Segments) - 1) : ~IntOk(Segments[i])
    \/ ~FloatOk(Segments[Len(Segments)])

\* C8: parse_chip_time never raises; blank text, text with one or with four
\* or more segments and text with a segment that is not a number give None,
\* and every such failure of a non-blank text is logged.
C8_FailuresReported ==
    pc = "parsed" =>
        /\ ~chip.raised
        /\ Strip(time_str) = <<>> => chip.ret = None
        /\ (Strip(time_str) # <<>> /\ ParseFailure) =>
              /\ chip.ret = None
              /\ \E m \in log : m[1] \in {"error", "warning"}

\* C8 (the part that holds): no exception, and None for every failure
C8_NeverRaises ==
    pc = "parsed" =>
        /\ ~chip.raised
        /\ (Strip(time_str) = <<>> \/ ParseFailure) => chip.ret = None

\* C9: every row of parse_results_table has chip_time_seconds missing or
\* non-negative, and equal to parse_chip_time of its own chip_time_str.
C9_ChipSecondsNonNegative ==
    pc = "rows" =>
        \A i \in 1..Len(page_results) :
            /\ page_results[i].chip_time_seconds.some =>
                  page_results[i].chip_time_seconds.val >= 0
            /\ page_results[i].chip_time_seconds
                 = parse_chip_time(page_results[i].chip_time_str).ret

\* C9 (the part that holds): the seconds are those of the row's own text
C9_DerivedFromText ==
    pc = "rows" =>
        /\ Len(page_results) = 1
        /\ page_results[1].chip_time_str = Strip(time_str)
        /\ page_results[1].chip_time_seconds
             = parse_chip_time(page_results[1].chip_time_str).ret


-----------------------------------------------------------------------------
(* get_race_date on generated page texts: up to MaxFrags fragments, joined *)
(* by single blanks                                                        *)

FragLong == <<"O", "c", "t", "o", "b", "e", "r", " ", "6", ",", " ", "2", "0", "2", "4">>
FragAbbr == <<"O", "c", "t", " ", "7", ",", " ", "2", "0", "2", "4">>
FragWord == <<"P", "o", "s", "t", "e", "d", " ", "3", ",", " ", "2", "0", "2", "5">>
FragSlash == <<"1", "0", "/", "5", "/", "2", "0", "2", "4">>
FragBadMonth == <<"1", "3", "/", "5", "/", "2", "0", "2", "4">>
FragBadDay == <<"j", "u", "n", "e", " ", "3", "1", ",", " ", "2", "0", "2", "3">>
FragFiller == <<"r", "e", "s", "u", "l", "t", "s">>
FragEmbedded == <<"1", "1", "0", "/", "4", "/", "2", "0", "2", "3">>

Frags == {FragLong, FragAbbr, FragWord, FragSlash,
          FragBadMonth, FragBadDay, FragFiller, FragEmbedded}

RECURSIVE Join(_)
Join(fs) ==
    IF fs = <<>> THEN <<>>
    ELSE IF Len(fs) = 1 THEN fs[1]
    ELSE fs[1] \o <<" ">> \o Join(Tail(fs))

DateTexts == {Join(fs) : fs \in UNION {[1..n -> Frags] : n \in 0..MaxFrags}}

TextPage(text) ==
    [table |-> FALSE, trs |-> <<>>, next |-> FALSE, inputs |-> <<>>,
     text |-> text]

\* get_race_date(soup) is called
GetRaceDate ==
    /\ pc = "page"
    /\ race_date' = get_race_date(soup).ret
    /\ log' = get_race_date(soup).log
    /\ pc' = IF get_race_date(soup).raised THEN "raised" ELSE "dated"
    /\ UNCHANGED <<years, yi, year, soup, page_num, page_results, all_results,
                   results, requests, form_data, served, parseVars, storeVars, callVars>>

InitDate ==
    /\ pc = "page"
    /\ soup \in {TextPage(t) : t \in DateTexts}
    /\ years = <<>> /\ yi = 0 /\ year = 0
    /\ race_date = None /\ page_num = 0 /\ page_results = <<>>
    /\ all_results = <<>> /\ results = <<>> /\ requests = <<>>
    /\ form_data = NoPost /\ served = <<>>
    /\ log = {}
    /\ ParseIdle /\ StoreIdle /\ CallIdle

NextDate == GetRaceDate

SpecDate == InitDate /\ [][NextDate]_vars

\* the candidates: the long-form matches in text order, then the slash-form
\* matches in text order
Candidates(text) == FindAll("long", text) \o FindAll("slash", text)

ParsesUnder(match) == {f \in 1..Len(date_formats) : Strptime(match, date_formats[f]).some}

FirstParsed(text) ==
    LET c == Candidates(text)
        ok == {i \in 1..Len(c) : ParsesUnder(c[i]) # {}}
    IN  IF ok = {} THEN None
        ELSE LET i == CHOOSE k \in ok : \A j \in ok : k <= j
                 f == CHOOSE k \in ParsesUnder(c[i]) :
                          \A j \in ParsesUnder(c[i]) : k <= j
             IN  Strptime(c[i], date_formats[f])

\* C10: get_race_date returns the first candidate that parses, candidates
\* being all long-form matches in text order and then all slash-form matches,
\* each tried under the three formats in order; unparsable matches are
\* skipped; when none parses the result is None and nothing is raised.
C10_FirstParsedCandidate ==
    pc # "raised" /\ (pc = "dated" => race_date = FirstParsed(soup.text))

\* C10 witness: a parsable slash date precedes a parsable long-form date in
\* the text and the long-form date is returned
C10_Witness ==
    /\ pc = "dated"
    /\ soup.text = Join(<<FragSlash, FragLong>>)
    /\ race_date = Some(Date(2024, 10, 6))

\* a match that parses under no format was skipped and a later one returned
C10_WitnessSkip ==
    /\ pc = "dated"
    /\ soup.text = Join(<<FragWord, FragBadMonth, FragAbbr>>)
    /\ race_date = Some(Date(2024, 10, 7))


-----------------------------------------------------------------------------
(* Dates and timestamps as text *)

\* n as exactly w digits, zero padded
RECURSIVE Padded(_, _)
Padded(n, w) ==
    IF w = 0 THEN <<>>
    ELSE Padded(n \div 10, w - 1) \o <<CHOOSE c \in Digit : DigitVal(c) = n % 10>>

\* date.isoformat()
IsoDate(d) == Padded(d.y, 4) \o <<"-">> \o Padded(d.m, 2) \o <<"-">> \o Padded(d.d, 2)

\* the timestamps of the weather source: 'YYYY-MM-DDTHH:MM'
IsoStamp(d, h) == IsoDate(d) \o <<"T">> \o Padded(h, 2) \o <<":", "0", "0">>

\* datetime.fromisoformat on a timestamp of the weather source
FromIso(t) ==
    [date |-> Date(DigitsVal(SubSeq(t, 1, 4)), DigitsVal(SubSeq(t, 6, 7)),
                   DigitsVal(SubSeq(t, 9, 10))),
     hour |-> DigitsVal(SubSeq(t, 12, 13)),
     minute |-> DigitsVal(SubSeq(t, 15, 16))]

\* datetime.isoformat()
IsoDateTime(ts) ==
    IsoDate(ts.date) \o <<"T">> \o Padded(ts.hour, 2) \o <<":">>
      \o Padded(ts.minute, 2) \o <<":", "0", "0">>

-----------------------------------------------------------------------------
(* WeatherFetcher: the weather source and the race window *)

RACE_START_HOUR == 7
RACE_END_HOUR == 11

Locations == <<"start", "summit">>

\* what fetch_weather_for_date returns: None, or the hourly arrays
NoHourly == [none |-> TRUE]

Hourly(d, hours, temps) ==
    [time |-> [i \in 1..Len(hours) |-> IsoStamp(d, hours[i])],
     temperature_2m |-> temps,
     windspeed_10m |-> [i \in 1..Len(hours) |-> Some(hours[i])],
     winddirection_10m |-> [i \in 1..Len(hours) |-> Some(180)],
     wind_gusts_10m |-> [i \in 1..Len(hours) |-> Some(2 * hours[i])]]

\* answers of the weather source for date d: a failure, or the hours on both
\* sides of the two ends of the window with a temperature array cut short
WeatherAnswers(d) ==
    {NoHourly, Hourly(d, <<6, 7, 11, 12>>, <<Some(50), Some(51)>>)}

\* a slip: the last item of an array taken for missing
ItemOrNone_but_last(array, i) ==
    IF i + 1 < Len(array) THEN array[i + 1] ELSE None

\* array[i] if i < len(array) else None, i 0-based
ItemOrNone(array, i) == IF i < Len(array) THEN array[i + 1] ELSE None

\* hourly_data.get(name, []), lines 106-110
GetArray(hourly_data, name) ==
    IF name \in DOMAIN hourly_data THEN hourly_data[name] ELSE <<>>

\* if config.RACE_START_HOUR <= hour <= config.RACE_END_HOUR; a slip that
\* leaves the last hour out
in_race_window_exclusive(hour) == RACE_START_HOUR <= hour /\ hour < RACE_END_HOUR
in_race_window(hour) == RACE_START_HOUR <= hour /\ hour <= RACE_END_HOUR

\* WeatherFetcher.extract_race_window_data
extract_race_window_data(hourly_data) ==
    LET timestamps == GetArray(hourly_data, "time")
        temps == GetArray(hourly_data, "temperature_2m")
        windspeeds == GetArray(hourly_data, "windspeed_10m")
        winddirections == GetArray(hourly_data, "winddirection_10m")
        wind_gusts == GetArray(hourly_data, "wind_gusts_10m")
        RECURSIVE window(_)
        window(i) ==
            IF i >= Len(timestamps) THEN <<>>
            ELSE LET timestamp == FromIso(timestamps[i + 1])
                     record ==
                         [timestamp |-> timestamp,
                          temperature_2m |-> ItemOrNone(temps, i),
                          windspeed_10m |-> ItemOrNone(windspeeds, i),
                          winddirection_10m |-> ItemOrNone(winddirections, i),
                          wind_gusts_10m |-> ItemOrNone(wind_gusts, i)]
                 IN  (IF in_race_window(timestamp.hour)
                      THEN <<record>> ELSE <<>>) \o window(i + 1)
    IN  window(0)

\* a race date handed over as a string
Str(text) == [some |-> TRUE, val |-> text, str |-> TRUE]
IsStr(v) == "str" \in DOMAIN v

\* datetime.fromisoformat(text).date()
IsoToDate(text) ==
    Date(DigitsVal(SubSeq(text, 1, 4)), DigitsVal(SubSeq(text, 6, 7)),
         DigitsVal(SubSeq(text, 9, 10)))

\* datetime.fromisoformat(text).date() succeeds: 'YYYY-MM-DD', alone or
\* followed by 'THH:MM'
IsoDateOk(text) ==
    /\ Len(text) \in {10, 16}
    /\ \A i \in {1, 2, 3, 4, 6, 7, 9, 10} : text[i] \in Digit
    /\ text[5] = "-" /\ text[8] = "-"
    /\ ValidDate(DigitsVal(SubSeq(text, 1, 4)), DigitsVal(SubSeq(text, 6, 7)),
                 DigitsVal(SubSeq(text, 9, 10)))
    /\ Len(text) = 16 =>
          /\ text[11] \in {"T", " "} /\ text[14] = ":"
          /\ \A i \in {12, 13, 15, 16} : text[i] \in Digit
          /\ DigitsVal(SubSeq(text, 12, 13)) <= 23
          /\ DigitsVal(SubSeq(text, 15, 16)) <= 59

\* WeatherFetcher.fetch_weather_for_date, answer being what the weather
\* source answers the request with: no request is made for a location that
\* is not one of self.locations; the date is sent as isoformat() or str()
fetch_weather_for_date(race_day, location_name, answer) ==
    IF location_name \notin {"start", "summit"} THEN NoHourly ELSE answer

\* the request of fetch_weather_for_date reaches the weather source
WeatherRequested(race_day, location_name) ==
    /\ ~(IsStr(race_day) /\ ~IsoDateOk(race_day.val))
    /\ location_name \in {"start", "summit"}

\* WeatherFetcher.fetch_weather_for_race; race_day is its race_date: None, a date or a
\* string, answer what the weather source answers the request with
fetch_weather_for_race(y, race_day, location_name, answer) ==
    IF IsStr(race_day) /\ ~IsoDateOk(race_day.val) THEN <<>>
    ELSE LET date == IF IsStr(race_day)
                     THEN Some(IsoToDate(race_day.val))
                     ELSE race_day
             hourly_data == fetch_weather_for_date(date, location_name, answer)
         IN  IF "none" \in DOMAIN hourly_data THEN <<>>
             ELSE LET window == extract_race_window_data(hourly_data)
                  IN  [i \in 1..Len(window) |->
                          [year |-> y, race_date |-> date,
                           location |-> location_name] @@ window[i]]

-----------------------------------------------------------------------------
(* DiabloDatabase.  A table is the sequence of its rows in insertion       *)
(* order; the id and created_at columns are not modelled.                  *)

RowsOfYear(table, y) == SelectSeq(table, LAMBDA r : r.year = y)

\* DiabloDatabase.year_exists: it counts rows of race_results
year_exists(rr, y) == Len(RowsOfYear(rr, y)) > 0

\* a variant that replaces every race year, in the batch or not
YearsToReplace_every(batch) == {2024, 2025}

\* set(r.get('year') for r in results if r.get('year'))
YearsToReplace(batch) == {batch[i].year : i \in 1..Len(batch)} \ {0}

\* DELETE FROM <table> WHERE year = ?, for every year of ys
DeleteYears(table, ys) == SelectSeq(table, LAMBDA r : r.year \notin ys)

\* the date columns as inserted: isoformat() of a date, of a datetime
StoredDate(d) == IF d.some THEN Some(IsoDate(d.val)) ELSE d
StoredRace(batch) ==
    [i \in 1..Len(batch) |->
        [batch[i] EXCEPT !.race_date = StoredDate(@)]]
StoredWeather(batch) ==
    [i \in 1..Len(batch) |->
        [batch[i] EXCEPT !.race_date = StoredDate(@),
                         !.timestamp = IsoDateTime(@)]]

\* a variant that empties the table before a replacing insert
insert_race_results_clearing(rr, batch, replace_existing) ==
    IF replace_existing THEN StoredRace(batch) ELSE rr \o StoredRace(batch)

\* DiabloDatabase.insert_race_results: the new content of race_results
insert_race_results(rr, batch, replace_existing) ==
    LET doomed == IF replace_existing /\ batch # <<>>
                  THEN {y \in YearsToReplace(batch) : year_exists(rr, y)}
                  ELSE {}
    IN  DeleteYears(rr, doomed) \o StoredRace(batch)

\* DiabloDatabase.insert_weather_data: the new content of weather_data; the
\* years deleted are those that year_exists finds in race_results
insert_weather_data(rr, wd, batch, replace_existing) ==
    LET doomed == IF replace_existing /\ batch # <<>>
                  THEN {y \in YearsToReplace(batch) : year_exists(rr, y)}
                  ELSE {}
    IN  DeleteYears(wd, doomed) \o StoredWeather(batch)

\* DiabloDatabase.delete_year_data: both tables without the rows of the year
delete_year_data(db, y) ==
    [race_results |-> DeleteYears(db.race_results, {y}),
     weather_data |-> DeleteYears(db.weather_data, {y})]

-----------------------------------------------------------------------------
(* Calls on the store, and update_year.py *)

\* years a batch is made for: the race years, and the year 0 that
\* main.py --years accepts like any other integer
BatchYears == RaceYears \cup {0}

\* years the scripts are started with: those of the batches and the two next
\* to the range update_year.py admits
ScriptYears == BatchYears \cup {2017, 2031}

\* the day of the race of year y
RaceDay(y) == Date(IF y = 0 THEN 2024 ELSE y, 10, 6)

\* what scrape_year returns for year y from a source of one page, the race
\* date of the landing page being d
ScrapedRows ==
    [y \in ScriptYears |->
        parse_results_table(ServerPage(y, 1, "last", TextNoDate), y).rows]

Scraped(y, d) == WithRaceDate(ScrapedRows[y], d)

\* the batches handed to insert_race_results: none, one year, two years
RaceBatches ==
    {<<>>} \cup {Scraped(y, Some(RaceDay(y))) : y \in BatchYears}
      \cup {Scraped(2024, Some(RaceDay(2024))) \o Scraped(2025, Some(RaceDay(2025)))}

\* the loop of update_year over the two locations, answers[i] being the
\* answer of the weather source for Locations[i]
RECURSIVE WeatherRecords(_, _, _, _)
WeatherRecords(y, d, answers, i) ==
    IF i > Len(Locations) THEN <<>>
    ELSE fetch_weather_for_race(y, d, Locations[i], answers[i])
           \o WeatherRecords(y, d, answers, i + 1)

\* the batches handed to insert_weather_data: none, or one location of a year
WeatherBatches ==
    {<<>>} \cup
    UNION {{fetch_weather_for_race(y, Some(RaceDay(y)), "start", a) :
               a \in WeatherAnswers(RaceDay(y)) \ {NoHourly}} : y \in RaceYears}

Db == [race_results |-> race_results, weather_data |-> weather_data]

\* the call before was the same call with the same input
Repeats(input) ==
    \A k \in DOMAIN input : k \in DOMAIN last_call /\ last_call[k] = input[k]

\* a call is recorded as call, its input and what it did; with the tables it
\* found when it repeats the call before it
Recorded(input, call) ==
    /\ calls' = calls + 1
    /\ last_call' = call
    /\ repeated' = Repeats(input)
    /\ prev_db' = IF Repeats(input) THEN Db ELSE EmptyDb

Called(call) == Recorded(call, call)

InsertRaceResults ==
    /\ pc = "store" /\ calls < MaxCalls
    /\ \E batch \in RaceBatches, replace_existing \in BOOLEAN :
          /\ race_results' = insert_race_results(race_results, batch, replace_existing)
          /\ Called([op |-> "insert_race_results", batch |-> batch,
                     replace_existing |-> replace_existing])
    /\ weather_data' = weather_data
    /\ UNCHANGED <<pc, crawlVars, parseVars, callVars, log>>

InsertWeatherData ==
    /\ pc = "store" /\ calls < MaxCalls
    /\ \E batch \in WeatherBatches, replace_existing \in BOOLEAN :
          /\ weather_data' = insert_weather_data(race_results, weather_data, batch,
                                                 replace_existing)
          /\ Called([op |-> "insert_weather_data", batch |-> batch,
                     replace_existing |-> replace_existing])
    /\ race_results' = race_results
    /\ UNCHANGED <<pc, crawlVars, parseVars, callVars, log>>

DeleteYearData ==
    /\ pc = "store" /\ calls < MaxCalls
    /\ \E y \in BatchYears :
          /\ race_results' = delete_year_data(Db, y).race_results
          /\ weather_data' = delete_year_data(Db, y).weather_data
          /\ Called([op |-> "delete_year_data", year |-> y])
    /\ UNCHANGED <<pc, crawlVars, parseVars, callVars, log>>

ClearRaceResults ==
    /\ pc = "store" /\ calls < MaxCalls
    /\ race_results' = <<>>
    /\ Called([op |-> "clear_race_results"])
    /\ UNCHANGED <<pc, crawlVars, parseVars, callVars, log, weather_data>>

ClearWeatherData ==
    /\ pc = "store" /\ calls < MaxCalls
    /\ weather_data' = <<>>
    /\ Called([op |-> "clear_weather_data"])
    /\ UNCHANGED <<pc, crawlVars, parseVars, callVars, log, race_results>>

\* replace_existing as update_year passes it; a slip that passes False
update_without_replace == FALSE
update_replace_existing == TRUE

\* if year_exists and not replace; a slip that never refuses
update_refused_never(exists, replace) == FALSE
update_refused(exists, replace) == exists /\ ~replace

\* update_year(y, replace) against a source that answers scrape_year with
\* scraped and the two weather requests with answers: the tables it leaves
\* and what it returns
\* scrapes and fetches count its calls of scrape_year and of
\* fetch_weather_for_race
update_year(db, y, replace, scraped, answers) ==
    IF update_refused(year_exists(db.race_results, y), replace)
    THEN [db |-> db, ret |-> FALSE, scrapes |-> 0, fetches |-> 0]
    ELSE IF scraped = <<>>
    THEN [db |-> db, ret |-> FALSE, scrapes |-> 1, fetches |-> 0]
    ELSE IF ~scraped[1].race_date.some
    THEN [db |-> db, ret |-> FALSE, scrapes |-> 1, fetches |-> 0]
    ELSE LET weather_records == WeatherRecords(y, scraped[1].race_date, answers, 1)
             rr == insert_race_results(db.race_results, scraped,
                                       update_replace_existing)
         IN  [db |-> [race_results |-> rr,
                      weather_data |-> insert_weather_data(rr, db.weather_data,
                                          weather_records, update_replace_existing)],
              ret |-> TRUE, scrapes |-> 1, fetches |-> Len(Locations)]

\* what the source answers scrape_year with: nothing, a page without a race
\* date, a page with one
ScrapeOutcomes ==
    [y \in RaceYears |-> {<<>>, Scraped(y, None), Scraped(y, Some(RaceDay(y)))}]

\* what the weather source answers the requests of the two locations with
LocationAnswers ==
    [y \in RaceYears |-> [1..Len(Locations) -> WeatherAnswers(RaceDay(y))]]

UpdateYear ==
    /\ pc = "store" /\ calls < MaxCalls
    /\ \E y \in RaceYears, replace \in BOOLEAN :
       \E scraped \in ScrapeOutcomes[y], answers \in LocationAnswers[y] :
       \E out \in {update_year(Db, y, replace, scraped, answers)} :
              /\ race_results' = out.db.race_results
              /\ weather_data' = out.db.weather_data
              /\ Recorded([op |-> "update_year", year |-> y, replace |-> replace,
                           scraped |-> scraped, answers |-> answers],
                          [op |-> "update_year", year |-> y, replace |-> replace,
                           scraped |-> scraped, answers |-> answers,
                           ret |-> out.ret, scrapes |-> out.scrapes,
                           fetches |-> out.fetches])
    /\ UNCHANGED <<pc, crawlVars, parseVars, callVars, log>>

InitStore ==
    /\ pc = "store"
    /\ CrawlIdle /\ ParseIdle /\ StoreIdle /\ CallIdle
    /\ log = {}

NextStore ==
    \/ InsertRaceResults
    \/ InsertWeatherData
    \/ DeleteYearData
    \/ ClearRaceResults
    \/ ClearWeatherData
    \/ UpdateYear

SpecStore == InitStore /\ [][NextStore]_vars

-----------------------------------------------------------------------------
(* main.py and the script of update_year.py *)

\* most runs of the two scripts in a run of the model
MaxRuns == 2

\* config.RACE_YEARS, the years of main.py without --years
RACE_YEARS == <<2024, 2025>>

\* the year lists main.py is started with
MainYears == {RACE_YEARS, <<0>>, <<2024>>}

\* what scrape_year(y) returns, y of any of the years
SourceOutcomes ==
    [y \in ScriptYears |-> {<<>>, Scraped(y, None), Scraped(y, Some(RaceDay(y)))}]

\* DiabloScraper.scrape_all_years as its callers see it: scraped[i] is what
\* scrape_year returns for the i-th year
RECURSIVE scrape_all_years(_, _)
scrape_all_years(scraped, i) ==
    IF i > Len(scraped) THEN <<>>
    ELSE scraped[i] \o scrape_all_years(scraped, i + 1)

\* a dict as the sequence of its items in insertion order
HasKey(dict, k) == \E i \in 1..Len(dict) : dict[i].key = k
SetItem(dict, k, v) ==
    IF HasKey(dict, k)
    THEN [i \in 1..Len(dict) |-> IF dict[i].key = k THEN [key |-> k, val |-> v]
                                 ELSE dict[i]]
    ELSE Append(dict, [key |-> k, val |-> v])

\* main: the loop that fills race_dates_by_year from the scraped rows
RECURSIVE race_dates_of_results(_, _, _)
race_dates_of_results(rows, i, dict) ==
    IF i > Len(rows) THEN dict
    ELSE race_dates_of_results(rows, i + 1,
            IF rows[i].race_date.some /\ ~HasKey(dict, rows[i].year)
            THEN SetItem(dict, rows[i].year, rows[i].race_date)
            ELSE dict)

\* the answer of the weather source to the request for a date
WeatherAnswerOf(kind, d) ==
    IF kind = "hourly" /\ d.some
    THEN Hourly(d.val, <<6, 7, 11, 12>>, <<Some(50), Some(51)>>)
    ELSE NoHourly

AnswerKinds == [1..Len(Locations) -> {"none", "hourly"}]
NotAsked == [i \in 1..Len(Locations) |-> "none"]

\* WeatherFetcher.fetch_all_weather_data; kinds[i] is how the weather
\* source answers the requests for Locations[i]
RECURSIVE fetch_all_weather_data(_, _, _)
fetch_all_weather_data(dict, kinds, i) ==
    IF i > Len(dict) THEN <<>>
    ELSE (IF ~dict[i].val.some THEN <<>>
          ELSE WeatherRecords(dict[i].key, dict[i].val,
                  [l \in 1..Len(Locations) |-> WeatherAnswerOf(kinds[l], dict[i].val)],
                  1))
           \o fetch_all_weather_data(dict, kinds, i + 1)

\* the number of requests fetch_all_weather_data sends
FetchesOf(dict) ==
    Len(Locations) * Cardinality({i \in 1..Len(dict) : dict[i].val.some})

\* store_data(race_results, weather_records, force), replace_existing at its
\* default: the tables it leaves
store_data(db, results_in, weather_in, force) ==
    LET cleared == IF force THEN EmptyDb ELSE db
        replace_existing == IF force THEN FALSE ELSE TRUE
        rr == IF results_in # <<>>
              THEN insert_race_results(cleared.race_results, results_in,
                                       replace_existing)
              ELSE cleared.race_results
        wd == IF weather_in # <<>>
              THEN insert_weather_data(rr, cleared.weather_data, weather_in,
                                       replace_existing)
              ELSE cleared.weather_data
    IN  [race_results |-> rr, weather_data |-> wd]

\* main --weather-only: race_dates_by_year as read from race_results,
\* SELECT DISTINCT year, race_date ... ORDER BY year, the rows without a
\* race date left out and the date strings parsed
StoredYears(rr) == {rr[i].year : i \in 1..Len(rr)}
StoredDatesOf(rr, y) ==
    {rr[i].race_date.val : i \in {j \in 1..Len(rr) :
                                    rr[j].year = y /\ rr[j].race_date.some}}

RECURSIVE race_dates_of_store(_, _)
race_dates_of_store(rr, ys) ==
    IF ys = {} THEN <<>>
    ELSE LET y == CHOOSE m \in ys : \A o \in ys : m <= o
             rest == race_dates_of_store(rr, ys \ {y})
         IN  IF StoredDatesOf(rr, y) = {} THEN rest
             ELSE <<[key |-> y,
                     val |-> Some(IsoToDate(CHOOSE t \in StoredDatesOf(rr, y) : TRUE))]>>
                    \o rest

\* main of main.py in one of its modes, years being the year list (--years
\* or config.RACE_YEARS), scraped what scrape_year returns for each of
\* them, kinds how the weather source answers: the tables it leaves, and
\* the numbers of calls of scrape_year and of weather requests it made
main(db, mode, force, years_in, scraped, kinds) ==
    IF mode = "analyze_only"
    THEN [db |-> db, scrapes |-> 0, fetches |-> 0]
    ELSE IF mode = "weather_only"
    THEN LET dict == race_dates_of_store(db.race_results,
                                         StoredYears(db.race_results))
         IN  [db |-> store_data(db, <<>>, fetch_all_weather_data(dict, kinds, 1),
                                force),
              scrapes |-> 0, fetches |-> FetchesOf(dict)]
    ELSE IF mode = "scrape_only"
    THEN [db |-> store_data(db, scrape_all_years(scraped, 1), <<>>, force),
          scrapes |-> Len(years_in), fetches |-> 0]
    ELSE LET rows == scrape_all_years(scraped, 1)
             dict == race_dates_of_results(rows, 1, <<>>)
         IN  [db |-> store_data(db, rows, fetch_all_weather_data(dict, kinds, 1),
                                force),
              scrapes |-> Len(years_in), fetches |-> FetchesOf(dict)]

\* main of update_year.py: the check of the year
year_seems_invalid(y) == y < 2018 \/ y > 2030

\* main of update_year.py started with year y: what update_year does, if
\* the year passes the check
update_year_main(db, y, replace, scraped, kinds) ==
    IF year_seems_invalid(y)
    THEN [db |-> db, ret |-> FALSE, scrapes |-> 0, fetches |-> 0]
    ELSE update_year(db, y, replace, scraped,
                     [l \in 1..Len(Locations) |->
                         WeatherAnswerOf(kinds[l], Some(RaceDay(y)))])

\* what the source answers the calls of scrape_year for the years with
ScrapedFor ==
    [ys \in MainYears |->
        {f \in [1..Len(ys) -> UNION {SourceOutcomes[y] : y \in ScriptYears}] :
            \A i \in 1..Len(ys) : f[i] \in SourceOutcomes[ys[i]]}]

NothingScraped == <<>>

\* a weather request is made by main for these inputs
MainFetches(db, mode, scraped) ==
    \/ mode = "weather_only"
         /\ race_dates_of_store(db.race_results, StoredYears(db.race_results)) # <<>>
    \/ mode = "full"
         /\ race_dates_of_results(scrape_all_years(scraped, 1), 1, <<>>) # <<>>

Main ==
    /\ pc = "store" /\ calls < MaxRuns
    /\ \E mode \in {"analyze_only", "weather_only", "scrape_only", "full"},
          force \in BOOLEAN, years_in \in MainYears :
       \E scraped \in IF mode \in {"scrape_only", "full"}
                      THEN ScrapedFor[years_in] ELSE {NothingScraped} :
       \E kinds \in IF MainFetches(Db, mode, scraped)
                    THEN AnswerKinds ELSE {NotAsked} :
          /\ mode \in {"analyze_only", "weather_only"} => years_in = RACE_YEARS
          /\ mode = "analyze_only" => ~force
          /\ \E out \in {main(Db, mode, force, years_in, scraped, kinds)} :
             LET input == [op |-> "main", mode |-> mode, force |-> force,
                           years |-> years_in, scraped |-> scraped,
                           kinds |-> kinds]
             IN  /\ race_results' = out.db.race_results
                 /\ weather_data' = out.db.weather_data
                 /\ Recorded(input,
                             input @@ [scrapes |-> out.scrapes,
                                       fetches |-> out.fetches])
    /\ UNCHANGED <<pc, crawlVars, parseVars, callVars, log>>

\* update_year.py started with a year and with or without --no-replace
UpdateYearMain ==
    /\ pc = "store" /\ calls < MaxRuns
    /\ \E y \in ScriptYears, replace \in BOOLEAN :
       \E scraped \in IF year_seems_invalid(y)
                         \/ update_refused(year_exists(race_results, y), replace)
                      THEN {NothingScraped} ELSE SourceOutcomes[y] :
       \E kinds \in IF scraped # <<>> /\ scraped[1].race_date.some
                    THEN AnswerKinds ELSE {NotAsked} :
       \E out \in {update_year_main(Db, y, replace, scraped, kinds)} :
          LET input == [op |-> "update_year_main", year |-> y,
                        replace |-> replace, scraped |-> scraped,
                        kinds |-> kinds]
          IN  /\ race_results' = out.db.race_results
              /\ weather_data' = out.db.weather_data
              /\ Recorded(input,
                          input @@ [ret |-> out.ret, scrapes |-> out.scrapes,
                                    fetches |-> out.fetches])
    /\ UNCHANGED <<pc, crawlVars, parseVars, callVars, log>>

NextMain == Main \/ UpdateYearMain

SpecMain == InitStore /\ [][NextMain]_vars

-----------------------------------------------------------------------------
(* Replace-by-year ingestion *)

\* the years present in a batch
YearsOf(batch) == {batch[i].year : i \in 1..Len(batch)}

\* the last call was insert_race_results with replace_existing=True, made
\* right after the same call with the same batch
RaceInsertRepeated ==
    /\ repeated
    /\ last_call.op = "insert_race_results"
    /\ last_call.replace_existing

\* C4: insert_race_results(batch, replace_existing=True) called a second time
\* with the same batch leaves, for every year present in the batch, the rows
\* of race_results that the first call left: no duplication.
C4_NoDuplication ==
    RaceInsertRepeated =>
        \A y \in YearsOf(last_call.batch) :
            RowsOfYear(race_results, y) = RowsOfYear(prev_db.race_results, y)

\* C4, what holds: the same, for the years of the batch other than 0; the
\* rows of the other years are the same after both calls as well
C4_NonZeroYears ==
    RaceInsertRepeated =>
        \A y \in BatchYears :
            (y \in YearsOf(last_call.batch) => y # 0) =>
                RowsOfYear(race_results, y) = RowsOfYear(prev_db.race_results, y)

\* the case of C4_NonZeroYears: a batch of two years inserted twice into a
\* store that held rows of one of them and of a third
C4_NonZeroWitness ==
    /\ RaceInsertRepeated
    /\ YearsOf(last_call.batch) = {2024, 2025}
    /\ Len(RowsOfYear(race_results, 0)) = 1
    /\ Len(race_results) = 3

\* C5: after insert_weather_data(batch, replace_existing=True), whatever the
\* store held, the weather_data rows of every year present in the batch are
\* exactly the rows of the batch for that year.
C5_WeatherReplaced ==
    (last_call.op = "insert_weather_data" /\ last_call.replace_existing) =>
        \A y \in YearsOf(last_call.batch) :
            RowsOfYear(weather_data, y)
              = RowsOfYear(StoredWeather(last_call.batch), y)

\* C5, what holds: the same, when race_results holds rows of the year at the
\* time of the call
C5_ReplacedWhenRaced ==
    (last_call.op = "insert_weather_data" /\ last_call.replace_existing) =>
        \A y \in YearsOf(last_call.batch) :
            year_exists(race_results, y) =>
                RowsOfYear(weather_data, y)
                  = RowsOfYear(StoredWeather(last_call.batch), y)

\* the case of C5_ReplacedWhenRaced: weather rows of a year that has race
\* rows were replaced by a batch
C5_RacedWitness ==
    /\ repeated
    /\ last_call.op = "insert_weather_data" /\ last_call.replace_existing
    /\ last_call.batch # <<>>
    /\ \A y \in YearsOf(last_call.batch) : year_exists(race_results, y)

\* the last call was update_year, made right after the same call against a
\* source that answered the same
UpdateRepeated == repeated /\ last_call.op = "update_year"

\* C6: update_year run a second time against a source that returns the same
\* result pages and the same weather answers leaves both tables as the first
\* run left them.
C6_UpdateIdempotent ==
    UpdateRepeated =>
        /\ race_results = prev_db.race_results
        /\ weather_data = prev_db.weather_data

\* the case of C6: both runs stored race rows and weather rows of the
\* year, in a store that holds rows of another year in both tables
C6_Witness ==
    /\ UpdateRepeated
    /\ last_call.ret
    /\ RowsOfYear(weather_data, last_call.year) # <<>>
    /\ \E y \in RaceYears \ {last_call.year} :
          /\ RowsOfYear(race_results, y) # <<>>
          /\ RowsOfYear(weather_data, y) # <<>>

-----------------------------------------------------------------------------
(* A year without a race date; years out of range; refusal; full wipes *)

\* the last call ingested years: the years, and what scrape_year returned
\* for each
Ingested ==
    IF last_call.op = "main" /\ last_call.mode \in {"scrape_only", "full"}
    THEN [i \in 1..Len(last_call.years) |->
             [year |-> last_call.years[i], rows |-> last_call.scraped[i]]]
    ELSE IF last_call.op = "update_year_main" /\ last_call.scrapes = 1
    THEN <<[year |-> last_call.year, rows |-> last_call.scraped]>>
    ELSE <<>>

Undated(rows) == rows # <<>> /\ ~rows[1].race_date.some
Dated(rows) == rows # <<>> /\ rows[1].race_date.some

\* the rows are in the table, one after the other
StoredIn(table, rows) ==
    \E i \in 0..(Len(table) - Len(rows)) :
        SubSeq(table, i + 1, i + Len(rows)) = rows

\* the weather requests of a run that requests the weather of the years
\* with a race date and of no other; --scrape-only requests none
FetchesForDated ==
    IF last_call.op = "main" /\ last_call.mode = "scrape_only" THEN 0
    ELSE Len(Locations) * Cardinality({j \in 1..Len(Ingested) :
                                          Dated(Ingested[j].rows)})

\* what C11 says of the ingestion of entry e
Tolerated(e) ==
    Undated(e.rows) =>
        /\ StoredIn(race_results, StoredRace(e.rows))
        /\ last_call.fetches = FetchesForDated

\* C11: when scrape_year returns the rows of a year without a race date
\* (get_race_date returned None), the run still stores these rows, with a
\* null race_date, and requests no weather for that year; in main.py and in
\* update_year.py alike.
C11_NullDateTolerated == \A i \in 1..Len(Ingested) : Tolerated(Ingested[i])

\* C11, what holds: the same of the runs of main.py
C11_MainTolerates ==
    last_call.op = "main" => \A i \in 1..Len(Ingested) : Tolerated(Ingested[i])

\* the case of C11_MainTolerates: main.py ingested a year with a race date
\* and a year without
C11_MainWitness ==
    /\ last_call.op = "main" /\ last_call.mode = "full"
    /\ \E i, j \in 1..Len(Ingested) :
          Undated(Ingested[i].rows) /\ Dated(Ingested[j].rows)
    /\ last_call.fetches = Len(Locations)

\* the last call was a script started with a year out of 2018..2030 that it
\* would ingest
OutOfRangeRun ==
    \/ /\ last_call.op = "update_year_main"
       /\ year_seems_invalid(last_call.year)
    \/ /\ last_call.op = "main" /\ last_call.mode \in {"scrape_only", "full"}
       /\ \E i \in 1..Len(last_call.years) : year_seems_invalid(last_call.years[i])

\* C17: a script started with a year outside the supported range makes no
\* request to the results source or the weather source; update_year.py and
\* main.py --years alike.
C17_RejectedBeforeNetwork ==
    OutOfRangeRun => last_call.scrapes = 0 /\ last_call.fetches = 0

\* C17, what holds: update_year.py rejects the year before any request and
\* before any change of the store
C17_UpdateYearRejects ==
    [][(calls' = calls + 1 /\ last_call'.op = "update_year_main"
          /\ year_seems_invalid(last_call'.year)) =>
            /\ last_call'.scrapes = 0 /\ last_call'.fetches = 0
            /\ ~last_call'.ret
            /\ race_results' = race_results /\ weather_data' = weather_data]_vars

\* C18: update_year(year, replace=False) on a store that holds race results
\* for the year returns False, calls neither scrape_year nor the weather
\* source, and leaves both tables as they are.
C18_RefusedWithoutReplace ==
    [][(calls' = calls + 1 /\ last_call'.op = "update_year"
          /\ ~last_call'.replace
          /\ year_exists(race_results, last_call'.year)) =>
            /\ ~last_call'.ret
            /\ last_call'.scrapes = 0 /\ last_call'.fetches = 0
            /\ race_results' = race_results /\ weather_data' = weather_data]_vars

\* the case of C18: update_year was refused for a year with race results,
\* though the source had rows and a race date to give
C18_Witness ==
    /\ last_call.op = "update_year" /\ ~last_call.replace
    /\ year_exists(race_results, last_call.year)
    /\ ~last_call.ret /\ last_call.scrapes = 0
    /\ Dated(last_call.scraped)

\* C19: a run of main.py --weather-only leaves race_results as it is, one
\* of --scrape-only leaves weather_data as it is, with or without --force;
\* after a forced store the tables hold exactly the batches of the run.
C19_WipeOnlyOnFullRebuild ==
    [][(calls' = calls + 1 /\ last_call'.op = "main") =>
            /\ last_call'.mode = "weather_only" => race_results' = race_results
            /\ last_call'.mode = "scrape_only" => weather_data' = weather_data]_vars

\* C19, what holds: without --force the two modes leave the other table as
\* it is, and after a forced store of scraped rows race_results holds
\* exactly these rows
C19_WithoutForce ==
    [][(calls' = calls + 1 /\ last_call'.op = "main") =>
            /\ (last_call'.mode = "weather_only" /\ ~last_call'.force)
                  => race_results' = race_results
            /\ (last_call'.mode = "scrape_only" /\ ~last_call'.force)
                  => weather_data' = weather_data
            /\ (last_call'.mode \in {"scrape_only", "full"} /\ last_call'.force)
                  => race_results'
                       = StoredRace(scrape_all_years(last_call'.scraped, 1))]_vars

-----------------------------------------------------------------------------
(* WeatherFetcher on hourly arrays and race dates of all kinds *)

\* most entries in a generated hourly array
MaxHours == 3

\* 'YYYY-MM-DDTHH:MM'
IsoStampAt(d, h, m) ==
    IsoDate(d) \o <<"T">> \o Padded(h, 2) \o <<":">> \o Padded(m, 2)

\* the moments of the generated arrays: both sides of both ends of the
\* window, the ends of the day, and an hour of the day after
Moments ==
    {[date |-> Date(2024, 10, 6), hour |-> hm[1], minute |-> hm[2]] :
        hm \in {<<0, 0>>, <<6, 59>>, <<7, 0>>, <<9, 0>>, <<11, 59>>, <<12, 0>>,
                <<23, 0>>}}
      \cup {[date |-> Date(2024, 10, 7), hour |-> 8, minute |-> 0]}

\* the 24 hourly entries of one day
DayMoments ==
    [i \in 1..24 |-> [date |-> Date(2024, 10, 6), hour |-> i - 1, minute |-> 0]]

MomentArrays ==
    UNION {[1..n -> Moments] : n \in 0..MaxHours} \cup {DayMoments}

\* the 'hourly' object for an array of moments; the temperature array is
\* one short
HourlyOf(moments) ==
    [time |-> [i \in 1..Len(moments) |->
                  IsoStampAt(moments[i].date, moments[i].hour, moments[i].minute)],
     temperature_2m |-> [i \in 1..(IF moments = <<>> THEN 0 ELSE Len(moments) - 1)
                            |-> Some(50 + i)],
     windspeed_10m |-> [i \in 1..Len(moments) |-> Some(i)],
     winddirection_10m |-> [i \in 1..Len(moments) |-> Some(180)],
     wind_gusts_10m |-> [i \in 1..Len(moments) |-> Some(2 * i)]]

\* race dates handed to fetch_weather_for_race: None, a date, strings
Text_iso_date == <<"2", "0", "2", "4", "-", "1", "0", "-", "0", "6">>
Text_not_a_date == <<"1", "0", "/", "0", "6", "/", "2", "0", "2", "4">>
Text_no_month == <<"2", "0", "2", "4", "-", "1", "3", "-", "0", "6">>
RaceDayArgs ==
    {None, Some(Date(2024, 10, 6)), Str(Text_iso_date), Str(Text_not_a_date),
     Str(Text_no_month), Str(<<>>)}

LocationArgs == {"start", "summit", "peak"}

\* moments is the array the answer of the weather source is made of
FetchArgs ==
    {[op |-> "fetch_weather_for_race", year |-> 2024, race_day |-> rd,
      location |-> loc, moments |-> ms, answer |-> HourlyOf(ms)] :
        rd \in RaceDayArgs, loc \in LocationArgs, ms \in MomentArrays}
    \cup
    {[op |-> "fetch_weather_for_race", year |-> 2024, race_day |-> rd,
      location |-> loc, moments |-> <<>>, answer |-> NoHourly] :
        rd \in RaceDayArgs, loc \in LocationArgs}

\* race_dates_by_year handed to fetch_all_weather_data: up to two years,
\* with a date or with None
DictArgs ==
    {<<>>} \cup
    {<<[key |-> 2024, val |-> v]>> : v \in {None, Some(RaceDay(2024))}} \cup
    {<<[key |-> 2024, val |-> v], [key |-> 2025, val |-> w]>> :
        v \in {None, Some(RaceDay(2024))}, w \in {None, Some(RaceDay(2025))}}

FetchAllArgs ==
    [op : {"fetch_all_weather_data"}, dict : DictArgs, kinds : AnswerKinds]

FetchWeatherForRace ==
    /\ pc = "fetch" /\ args.op = "fetch_weather_for_race"
    /\ ret' = [records |-> fetch_weather_for_race(args.year, args.race_day,
                                                  args.location, args.answer),
               requested |-> WeatherRequested(args.race_day, args.location)]
    /\ pc' = "fetched"
    /\ UNCHANGED <<crawlVars, parseVars, storeVars, args, log>>

FetchAllWeatherData ==
    /\ pc = "fetch" /\ args.op = "fetch_all_weather_data"
    /\ ret' = [records |-> fetch_all_weather_data(args.dict, args.kinds, 1),
               requests |-> FetchesOf(args.dict)]
    /\ pc' = "fetched"
    /\ UNCHANGED <<crawlVars, parseVars, storeVars, args, log>>

WeatherVariables ==
    {"temperature_2m", "windspeed_10m", "winddirection_10m", "wind_gusts_10m"}

\* how long the array of a variable is for n timestamps
CutTo(cut, n) ==
    CASE cut = "full"  -> n
      [] cut = "short" -> IF n = 0 THEN 0 ELSE n - 1
      [] cut = "one"   -> IF n = 0 THEN 0 ELSE 1
      [] OTHER         -> 0

\* the shapes of the generated 'hourly' objects: for each variable an array
\* as long as the timestamps, one short, of one item, empty, or no key
ArrayShapes ==
    {[v \in WeatherVariables |-> "full"],
     [v \in WeatherVariables |-> "short"],
     [v \in WeatherVariables |-> "absent"],
     [temperature_2m |-> "one", windspeed_10m |-> "empty",
      winddirection_10m |-> "absent", wind_gusts_10m |-> "full"],
     [temperature_2m |-> "absent", windspeed_10m |-> "full",
      winddirection_10m |-> "short", wind_gusts_10m |-> "one"]}

\* the value the weather source gives a variable at an entry, from 1
ValueAt(v, i) ==
    CASE v = "temperature_2m"    -> Some(50 + i)
      [] v = "windspeed_10m"     -> Some(i)
      [] v = "winddirection_10m" -> Some(180 + i)
      [] OTHER                   -> Some(2 * i)

ShapedHourly(moments, shape) ==
    [k \in {"time"} \cup {v \in WeatherVariables : shape[v] # "absent"} |->
        IF k = "time"
        THEN [i \in 1..Len(moments) |->
                 IsoStampAt(moments[i].date, moments[i].hour, moments[i].minute)]
        ELSE [i \in 1..CutTo(shape[k], Len(moments)) |-> ValueAt(k, i)]]

ExtractArgs ==
    {[op |-> "extract_race_window_data", moments |-> ms, shape |-> sh,
      hourly_data |-> ShapedHourly(ms, sh)] :
        ms \in MomentArrays, sh \in ArrayShapes}

\* extract_race_window_data(hourly_data, race_date, year) is called
ExtractRaceWindowData ==
    /\ pc = "fetch" /\ args.op = "extract_race_window_data"
    /\ ret' = [records |-> extract_race_window_data(args.hourly_data)]
    /\ pc' = "fetched"
    /\ UNCHANGED <<crawlVars, parseVars, storeVars, args, log>>

InitWeather ==
    /\ pc = "fetch"
    /\ args \in FetchArgs \cup FetchAllArgs \cup ExtractArgs
    /\ ret = NotReturned
    /\ CrawlIdle /\ ParseIdle /\ StoreIdle
    /\ log = {}

NextWeather ==
    \/ FetchWeatherForRace
    \/ FetchAllWeatherData
    \/ ExtractRaceWindowData

SpecWeather == InitWeather /\ [][NextWeather]_vars

-----------------------------------------------------------------------------
(* The race window; race dates that are missing or unparsable *)

FetchedForRace == pc = "fetched" /\ args.op = "fetch_weather_for_race"

\* the date the records are tagged with, for a race date that is a date or
\* an ISO date string
SuppliedDate ==
    IF args.race_day = Str(Text_iso_date) THEN Some(Date(2024, 10, 6))
    ELSE args.race_day

\* the positions of the entries of the array whose hour is in 7..11
WindowPositions == {i \in 1..Len(args.moments) : args.moments[i].hour \in 7..11}

\* the k-th of them
WindowPosition(k) ==
    CHOOSE i \in WindowPositions :
        Cardinality({j \in WindowPositions : j <= i}) = k

\* C12: the records fetch_weather_for_race makes of an hourly array are
\* exactly the entries with hour in 7..11, both ends included, in the order
\* of the array, one record each, tagged with the year, race date and
\* location supplied; the 24 entries of a day give the 5 records of the
\* hours 7 to 11; no record has an hour outside the window or a location
\* other than start and summit.
C12_RaceWindowRecords ==
    FetchedForRace =>
        /\ \A k \in 1..Len(ret.records) :
              /\ ret.records[k].timestamp.hour \in 7..11
              /\ ret.records[k].location \in {"start", "summit"}
        /\ (/\ args.answer # NoHourly
            /\ args.location \in {"start", "summit"}
            /\ args.race_day \in {Some(Date(2024, 10, 6)), Str(Text_iso_date)}) =>
              /\ Len(ret.records) = Cardinality(WindowPositions)
              /\ \A k \in 1..Len(ret.records) :
                    /\ ret.records[k].timestamp = args.moments[WindowPosition(k)]
                    /\ ret.records[k].year = args.year
                    /\ ret.records[k].race_date = SuppliedDate
                    /\ ret.records[k].location = args.location
              /\ args.moments = DayMoments =>
                    [k \in 1..Len(ret.records) |-> ret.records[k].timestamp.hour]
                      = <<7, 8, 9, 10, 11>>

\* the case of C12: the 24 entries of a day gave 5 records for the summit
C12_Witness ==
    /\ FetchedForRace
    /\ args.moments = DayMoments /\ args.location = "summit"
    /\ args.race_day = Some(Date(2024, 10, 6))
    /\ Len(ret.records) = 5

\* the case of C12 with entries at 06:59, 11:59 and 12:00
C12_WitnessEnds ==
    /\ FetchedForRace
    /\ [i \in 1..Len(args.moments) |-> <<args.moments[i].hour, args.moments[i].minute>>]
         = <<<<6, 59>>, <<11, 59>>, <<12, 0>>>>
    /\ args.location = "start" /\ args.race_day = Str(Text_iso_date)
    /\ Len(ret.records) = 1

\* C13: fetch_weather_for_race returns [] for a race date that is None or a
\* string that is not an ISO date, whatever the weather source answers.
C13_NoDateNoRecords ==
    (FetchedForRace /\ (args.race_day = None
                          \/ (IsStr(args.race_day) /\ args.race_day # Str(Text_iso_date))))
        => ret.records = <<>>

\* C13, what holds: [] for a string that is not an ISO date, without a
\* request; and fetch_all_weather_data makes no request and no record for a
\* year whose race date is None
C13_UnparsableOrSkipped ==
    /\ (FetchedForRace /\ IsStr(args.race_day) /\ args.race_day # Str(Text_iso_date))
          => (ret.records = <<>> /\ ~ret.requested)
    /\ (pc = "fetched" /\ args.op = "fetch_all_weather_data") =>
          /\ \A i \in 1..Len(args.dict) :
                ~args.dict[i].val.some =>
                    \A k \in 1..Len(ret.records) :
                        ret.records[k].year # args.dict[i].key
          /\ ret.requests
               = 2 * Cardinality({i \in 1..Len(args.dict) : args.dict[i].val.some})

\* the case of C13_UnparsableOrSkipped: of two years the one without a race
\* date was skipped, the other got its records
C13_SkippedWitness ==
    /\ pc = "fetched" /\ args.op = "fetch_all_weather_data"
    /\ Len(args.dict) = 2 /\ ~args.dict[1].val.some
    /\ ret.records # <<>>

-----------------------------------------------------------------------------
(* A page without rows ends the crawl of the year *)

\* the rows of the page the crawl is at
RowsOfSoup == parse_results_table(soup, year).rows

\* C20: in scrape_year a page that yields no row ends the crawl of the year
\* at once, with or without a 'Next >' link on it: no further request, no
\* error, and the rows of the earlier pages are what is returned; and every
\* POST follows a parse of the current page that gave at least one row and
\* the finding of the 'Next >' link on that page.
C20_NoRowsEndsYear ==
    [][/\ (pc = "loop" /\ in_limit(page_num) /\ RowsOfSoup = <<>>) =>
            /\ pc' = "ret"
            /\ requests' = requests
            /\ all_results' = all_results
            /\ {m \in log' \ log : m[1] = "error"} = {}
       /\ (pc = "ret" /\ Current.end = "exhausted") =>
            results' = results \o all_results
       /\ Len(requests') > Len(requests) /\ pc = "loop" =>
            /\ requests' = Append(requests, "POST")
            /\ RowsOfSoup # <<>>
            /\ next_link(soup)]_vars

\* the case of C20: the third page of a year had no rows but the link, and
\* the crawl returned the rows of the first two after three requests
C20_Witness ==
    /\ pc = "ret" /\ Current.end = "exhausted"
    /\ Current.kinds = <<"more", "more", "empty">>
    /\ next_link(soup) /\ RowsOfSoup = <<>>
    /\ Len(requests) = 3
    /\ all_results = YearRows(year, 2, race_date)

-----------------------------------------------------------------------------
(* DiabloAnalyzer: the yearly statistics of src/src/analysis.py *)

\* rows a table of the analysed database can have
MaxRows == 4

\* a number that need not be whole: num / den, den > 0
Ratio(n, d) == [num |-> n, den |-> d]
RatioIs(r, n, d) == r.num * d = n * r.den

\* the columns of race_results the analysis reads; chip_time_seconds is an
\* optional value (NULL in the table is None)
StatsRow(y, c) == [year |-> y, chip_time_seconds |-> c]

RECURSIVE Insert(_, _)
\* v put at its place in the ascending sequence sorted
Insert(sorted, v) ==
    IF sorted = <<>> THEN <<v>>
    ELSE IF v <= Head(sorted) THEN <<v>> \o sorted
    ELSE <<Head(sorted)>> \o Insert(Tail(sorted), v)

RECURSIVE SortedValues(_)
\* the values of a sequence in ascending order
SortedValues(values) ==
    IF values = <<>> THEN <<>>
    ELSE Insert(SortedValues(Tail(values)), Head(values))

RECURSIVE Sum(_)
Sum(values) == IF values = <<>> THEN 0 ELSE Head(values) + Sum(Tail(values))

\* get_race_results_df, lines 32-41: SELECT ... ORDER BY year (the order
\* inside a year plays no part in a statistic)
RECURSIVE OrderByYear(_)
OrderByYear(rows) ==
    IF rows = <<>> THEN <<>>
    ELSE LET first == CHOOSE i \in 1..Len(rows) :
                        \A j \in 1..Len(rows) :
                            \/ rows[i].year < rows[j].year
                            \/ rows[i].year = rows[j].year /\ i <= j
         IN  <<rows[first]>> \o
             OrderByYear([k \in 1..(Len(rows) - 1) |->
                             IF k < first THEN rows[k] ELSE rows[k + 1]])

get_race_results_df(rr) == OrderByYear(rr)

\* df['chip_time_seconds'].notna(), line 63
notna(row) == row.chip_time_seconds.some

\* a slip: the percentile by rank of DiabloDatabase.get_percentiles_by_year
\* (no interpolation), in quarters k of the whole
quantile_by_rank(sorted, k) ==
    LET n   == Len(sorted)
        idx == (n * k) \div 4
    IN  Ratio(sorted[(IF idx >= n THEN n - 1 ELSE idx) + 1], 1)

\* Series.quantile(k / 4) of pandas, lines 73-74: linear interpolation
\* between the order statistics around position (n - 1) * k / 4
quantile(sorted, k) ==
    LET n    == Len(sorted)
        pos4 == (n - 1) * k
        lo   == pos4 \div 4
        r    == pos4 % 4
        hi   == IF r = 0 THEN lo ELSE lo + 1
    IN  Ratio(4 * sorted[lo + 1] + r * (sorted[hi + 1] - sorted[lo + 1]), 4)

\* Series.median of pandas, line 69: the middle value, or the mean of the
\* two middle values
median(sorted) ==
    LET n == Len(sorted)
    IN  IF n % 2 = 1 THEN Ratio(sorted[(n + 1) \div 2], 1)
        ELSE Ratio(sorted[n \div 2] + sorted[n \div 2 + 1], 2)

\* the group of year y, line 66, and its aggregates, lines 66-75 (std and
\* the formatted columns of lines 77-80 are left out: they are functions of
\* the same group)
ChipTimesOf(df, y) ==
    LET group == SelectSeq(df, LAMBDA row : row.year = y)
    IN  [i \in 1..Len(group) |-> group[i].chip_time_seconds.val]

YearStats(df, y) ==
    LET values == ChipTimesOf(df, y)
        sorted == SortedValues(values)
    IN  [year   |-> y,
         count  |-> Len(values),
         mean   |-> Ratio(Sum(values), Len(values)),
         median |-> median(sorted),
         min    |-> sorted[1],
         max    |-> sorted[Len(sorted)],
         p25    |-> quantile(sorted, 1),
         p75    |-> quantile(sorted, 3)]

\* the keys of groupby('year'), in ascending order
GroupKeys(df) ==
    LET keys == {df[i].year : i \in 1..Len(df)}
    IN  SortedValues(CHOOSE q \in [1..Cardinality(keys) -> keys] :
                        {q[i] : i \in 1..Cardinality(keys)} = keys)

\* DiabloAnalyzer.calculate_yearly_statistics, lines 54-82
calculate_yearly_statistics(rr) ==
    LET df   == SelectSeq(get_race_results_df(rr), notna)
        keys == GroupKeys(df)
    IN  [i \in 1..Len(keys) |-> YearStats(df, keys[i])]

\* the columns of weather_data the combined statistics read; the measured
\* values are optional (NULL is None)
WeatherRow(y, loc, m) ==
    [year |-> y, location |-> loc, temperature_2m |-> m.temperature_2m,
     windspeed_10m |-> m.windspeed_10m, wind_gusts_10m |-> m.wind_gusts_10m]

\* the numbers among optional values, in their order
Present(values) ==
    LET there == SelectSeq(values, LAMBDA v : v.some)
    IN  [i \in 1..Len(there) |-> there[i].val]

\* 'mean' and 'max' of a group of pandas: over the values that are not
\* null; NaN (None) when there is none
MeanOf(values) ==
    LET nums == Present(values)
    IN  IF nums = <<>> THEN None ELSE Some(Ratio(Sum(nums), Len(nums)))
MaxOf(values) ==
    LET nums == SortedValues(Present(values))
    IN  IF nums = <<>> THEN None ELSE Some(Ratio(nums[Len(nums)], 1))

\* the locations in the order groupby and pivot_table sort them
LocationOrder == <<"start", "summit">>
LocationsIn(rows, y) ==
    SelectSeq(LocationOrder,
              LAMBDA loc : \E i \in 1..Len(rows) :
                              rows[i].year = y /\ rows[i].location = loc)

\* the aggregates of one (year, location) group, lines 97-102, under the
\* flattened names of line 105 (those the pivot does not read are left out)
WeatherStats(df, y, loc) ==
    LET group == SelectSeq(df, LAMBDA r : r.year = y /\ r.location = loc)
        col(name) == [i \in 1..Len(group) |-> group[i][name]]
    IN  [year |-> y, location |-> loc,
         windspeed_10m_mean  |-> MeanOf(col("windspeed_10m")),
         windspeed_10m_max   |-> MaxOf(col("windspeed_10m")),
         wind_gusts_10m_max  |-> MaxOf(col("wind_gusts_10m")),
         temperature_2m_mean |-> MeanOf(col("temperature_2m"))]

RECURSIVE Flatten(_)
Flatten(seqs) ==
    IF seqs = <<>> THEN <<>> ELSE Head(seqs) \o Flatten(Tail(seqs))

\* DiabloAnalyzer.calculate_weather_statistics_by_year, lines 84-107: an
\* empty frame for an empty table, else one row for each (year, location)
calculate_weather_statistics_by_year(wd) ==
    IF wd = <<>> THEN <<>>
    ELSE LET keys == GroupKeys(wd)
         IN  Flatten([i \in 1..Len(keys) |->
                 LET locs == LocationsIn(wd, keys[i])
                 IN  [j \in 1..Len(locs) |->
                         WeatherStats(wd, keys[i], locs[j])]])

\* values= of pivot_table, line 126
PivotValues ==
    {"windspeed_10m_mean", "windspeed_10m_max", "wind_gusts_10m_max",
     "temperature_2m_mean"}

\* pivot_table(index='year', columns='location', values=...), lines 123-131,
\* of pandas: groups that hold no number are dropped, the rest is spread to
\* one row for each year and one column for each (value, location) that
\* holds a number somewhere; the cell of a missing group is NaN (None)
pivot_table(stats) ==
    LET agged   == SelectSeq(stats,
                             LAMBDA r : \E v \in PivotValues : r[v].some)
        index   == GroupKeys(agged)
        columns == {<<v, agged[i].location>> :
                        v \in PivotValues, i \in 1..Len(agged)}
        cell(y, c) ==
            IF \E i \in 1..Len(agged) :
                    agged[i].year = y /\ agged[i].location = c[2]
            THEN (CHOOSE r \in {agged[i] : i \in 1..Len(agged)} :
                      r.year = y /\ r.location = c[2])[c[1]]
            ELSE None
        kept    == {c \in columns : \E i \in 1..Len(index) :
                                       cell(index[i], c).some}
    IN  [i \in 1..Len(index) |->
            [year |-> index[i], cells |-> [c \in kept |-> cell(index[i], c)]]]

\* the columns of a pivoted table: those of its rows
ColumnsOf(pivot) == IF pivot = <<>> THEN {} ELSE DOMAIN pivot[1].cells

\* a slip: how='inner'
merge_how_inner == "inner"
\* how='left', line 133
merge_how == "left"

\* race_stats.merge(weather_pivot, on='year', how=...), line 133, of pandas:
\* for each row of the left table in its order one row for each row of the
\* right table with the same year, and under 'left' one row with null
\* cells when there is none
merge(left, right, how) ==
    Flatten([i \in 1..Len(left) |->
        LET matches == SelectSeq(right, LAMBDA r : r.year = left[i].year)
        IN  IF matches = <<>>
            THEN IF how = "left"
                 THEN <<[year |-> left[i].year, race |-> left[i],
                         weather |-> [c \in ColumnsOf(right) |-> None]]>>
                 ELSE <<>>
            ELSE [j \in 1..Len(matches) |->
                     [year |-> left[i].year, race |-> left[i],
                      weather |-> matches[j].cells]]])

\* DiabloAnalyzer.get_combined_statistics, lines 109-135; without weather
\* statistics the race statistics are returned as they are (no weather
\* column at all)
get_combined_statistics(rr, wd) ==
    LET race_stats    == calculate_yearly_statistics(rr)
        weather_stats == calculate_weather_statistics_by_year(wd)
    IN  IF weather_stats = <<>>
        THEN [i \in 1..Len(race_stats) |->
                 [year |-> race_stats[i].year, race |-> race_stats[i],
                  weather |-> <<>>]]
        ELSE merge(race_stats, pivot_table(weather_stats), merge_how)

\* rows of the tables handed to the combined statistics
MaxJoinRows == 2

\* what one row of weather_data can measure
Measures ==
    {[temperature_2m |-> Some(50), windspeed_10m |-> Some(5),
      wind_gusts_10m |-> Some(10)],
     [temperature_2m |-> Some(60), windspeed_10m |-> Some(10),
      wind_gusts_10m |-> Some(20)],
     [temperature_2m |-> None, windspeed_10m |-> None,
      wind_gusts_10m |-> None]}

(* calculate_correlation of dashboard_data.py *)

\* longest sequence handed to calculate_correlation
MaxSeries == 3

\* round(..., 3), line 46: the result is counted in thousandths
Thousandths == 1000

\* the float that is not a number: not None, and not a coefficient
NaN == [some |-> FALSE, val |-> 0, nan |-> TRUE]

\* zip(x_values, y_values), line 38: pairs by index up to the shorter one
Zip(xs, ys) ==
    [i \in 1..(IF Len(xs) <= Len(ys) THEN Len(xs) ELSE Len(ys)) |->
        <<xs[i], ys[i]>>]

\* a * sqrt(d) <= b, for d >= 0, in whole numbers
LeqSqrt(a, d, b) ==
    IF a >= 0
    THEN b >= 0 /\ a * a * d <= b * b
    ELSE b >= 0 \/ a * a * d >= b * b

\* k thousandths is num / sqrt(den) rounded to three decimals
RoundsTo(k, num, den) ==
    /\ LeqSqrt(2 * k - 1, den, 2 * Thousandths * num)
    /\ ~LeqSqrt(2 * k + 1, den, 2 * Thousandths * num)

RECURSIVE RoundBetween(_, _, _, _)
\* the k of lo..hi with RoundsTo(k, num, den), which is there
RoundBetween(lo, hi, num, den) ==
    IF lo = hi THEN lo
    ELSE LET mid == (lo + hi + 1) \div 2
         IN  IF LeqSqrt(2 * mid - 1, den, 2 * Thousandths * num)
             THEN RoundBetween(mid, hi, num, den)
             ELSE RoundBetween(lo, mid - 1, num, den)

RECURSIVE GCD(_, _)
GCD(a, b) == IF b = 0 THEN a ELSE GCD(b, a % b)

RECURSIVE GCDOf(_)
GCDOf(values) ==
    IF values = <<>> THEN 0 ELSE GCD(Head(values), GCDOf(Tail(values)))

\* a series shifted to start at 0 and divided by the common divisor of its
\* values: the coefficient of numpy is the same for both (it is computed in
\* floating point), and the products below stay small
Reduced(values) ==
    LET least   == SortedValues(values)[1]
        shifted == [i \in 1..Len(values) |-> values[i] - least]
        g       == GCDOf(shifted)
    IN  IF g = 0 THEN shifted
        ELSE [i \in 1..Len(values) |-> shifted[i] \div g]

\* np.corrcoef(x, y)[0, 1] of numpy rounded by round(..., 3), line 46: the
\* covariance of the deviations from the means over the root of the product
\* of the variances (all three times n); 0 / 0 is nan when a series does
\* not vary, with a warning and no exception
corrcoef_rounded(x_in, y_in) ==
    LET n  == Len(x_in)
        xs == Reduced(x_in)
        ys == Reduced(y_in)
        dx == [i \in 1..n |-> n * xs[i] - Sum(xs)]
        dy == [i \in 1..n |-> n * ys[i] - Sum(ys)]
        c(u, v) == Sum([i \in 1..n |-> u[i] * v[i]]) \div n
        cxy == c(dx, dy)
        cxx == c(dx, dx)
        cyy == c(dy, dy)
    IN  IF cxx * cyy = 0 THEN NaN
        ELSE Some(RoundBetween(-Thousandths, Thousandths, cxy, cxx * cyy))

\* len(valid_pairs) < 2, line 40
too_few_pairs(valid_pairs) == Len(valid_pairs) < 2

\* calculate_correlation, lines 33-46
calculate_correlation(x_values, y_values) ==
    LET valid_pairs == SelectSeq(Zip(x_values, y_values),
                                 LAMBDA p : p[1] # None /\ p[2] # None)
        x == [i \in 1..Len(valid_pairs) |-> valid_pairs[i][1].val]
        y == [i \in 1..Len(valid_pairs) |-> valid_pairs[i][2].val]
    IN  IF too_few_pairs(valid_pairs) THEN None
        ELSE IF \E i \in 1..Len(valid_pairs) :
                   NaN \in {valid_pairs[i][1], valid_pairs[i][2]}
             THEN NaN  \* a nan among the values is not None: numpy gives nan
        ELSE corrcoef_rounded(x, y)

\* round(num / den, digits) of a number that is not negative, counted in
\* units of 10^-digits
RoundedTo(num, den, digits) ==
    (2 * num * Pow10(digits) + den) \div (2 * den)

\* seconds_to_minutes, lines 19-23: round(seconds / 60, 2), in hundredths
seconds_to_minutes(seconds) == RoundedTo(seconds.num, 60 * seconds.den, 2)

\* "wind_speed_avg" of "summit", line 136: None when the combined table has
\* no such column, else the cell rounded to one decimal (in tenths), which
\* is nan when the cell is NaN
summit_wind_speed_avg(row) ==
    LET column == <<"windspeed_10m_mean", "summit">>
    IN  IF column \notin DOMAIN row.weather THEN None
        ELSE IF row.weather[column] = None THEN NaN
        ELSE Some(RoundedTo(row.weather[column].val.num,
                            row.weather[column].val.den, 1))

\* the call has raised
Raised == [raised |-> TRUE]

\* generate_dashboard_data, lines 48-151, as far as the wind correlation:
\* the medians of the yearly statistics and the summit wind speeds of the
\* combined statistics, both in the order of the years, are handed to
\* calculate_correlation; without any year min(years) raises at line 85
generate_dashboard_data(rr, wd) ==
    LET stats    == calculate_yearly_statistics(rr)
        combined == get_combined_statistics(rr, wd)
        median_times == [i \in 1..Len(stats) |->
                            Some(seconds_to_minutes(stats[i].median))]
        summit_wind_speeds == [i \in 1..Len(combined) |->
                                  summit_wind_speed_avg(combined[i])]
    IN  IF stats = <<>> THEN Raised
        ELSE [years |-> [i \in 1..Len(stats) |-> stats[i].year],
              median_times |-> median_times,
              summit_wind_speeds |-> summit_wind_speeds,
              wind_correlation |->
                  calculate_correlation(summit_wind_speeds, median_times)]

GenerateDashboardData ==
    /\ pc = "analyze"
    /\ args.op = "generate_dashboard_data"
    /\ ret' = generate_dashboard_data(race_results, weather_data)
    /\ pc' = "analyzed"
    /\ UNCHANGED <<crawlVars, parseVars, storeVars, args, log>>

\* rows of the table handed to extract_rider_performances
MaxRiderRows == 3

\* the columns of race_results the rider query reads that decide which
\* riders are listed (place, gender and age are copied to the performance)
RiderRow(nm, y, c) == [name |-> nm, year |-> y, chip_time_seconds |-> c]

RiderNames == <<"ann", "bob">>

\* extract_rider_performances, lines 163-218: the rows with a chip time are
\* grouped by name; a group of two rows or more gives an entry, with one
\* performance for each row, sorted by year; the entries are in the order
\* of the names
extract_rider_performances(rr) ==
    LET df == SelectSeq(rr, notna)
        group(nm) == OrderByYear(SelectSeq(df, LAMBDA row : row.name = nm))
        performances(nm) ==
            [i \in 1..Len(group(nm)) |->
                [year |-> group(nm)[i].year,
                 time_seconds |-> group(nm)[i].chip_time_seconds.val]]
        listed == SelectSeq(RiderNames, LAMBDA nm : Len(group(nm)) >= 2)
    IN  [k \in 1..Len(listed) |->
            [name |-> listed[k],
             years_participated |-> Len(performances(listed[k])),
             performances |-> performances(listed[k])]]

\* the sequences handed to calculate_correlation
SeriesValues == {None, Some(0), Some(1), Some(2)}
Series == UNION {[1..n -> SeriesValues] : n \in 0..MaxSeries}

CalculateCorrelation ==
    /\ pc = "analyze"
    /\ args.op = "calculate_correlation"
    /\ ret' = calculate_correlation(args.x_values, args.y_values)
    /\ pc' = "analyzed"
    /\ UNCHANGED <<crawlVars, parseVars, storeVars, args, log>>

\* the chip times and the years of the analysed tables
ChipTimes == {None, Some(100), Some(200), Some(300), Some(400)}
StatsYears == {2024, 2025}

RaceRowsOfTables == {StatsRow(y, c) : y \in StatsYears, c \in ChipTimes}

\* the race_results tables the analyzer can find
RaceTables ==
    UNION {[1..n -> RaceRowsOfTables] : n \in 0..MaxRows}

\* the weather_data tables the analyzer can find: every measured column
\* holds a number in some row (a column of nulls only is read by pandas as
\* a column of objects, which is outside this model)
WeatherTables ==
    LET rows == {WeatherRow(y, loc, m) :
                    y \in StatsYears, loc \in {"start", "summit"},
                    m \in Measures}
    IN  {<<>>} \cup
        {t \in UNION {[1..n -> rows] : n \in 1..MaxJoinRows} :
            \E i \in 1..Len(t) : t[i].windspeed_10m.some}

\* the race_results tables of the combined statistics
JoinRaceTables ==
    LET rows == {StatsRow(y, c) :
                    y \in StatsYears, c \in {None, Some(100), Some(200)}}
    IN  UNION {[1..n -> rows] : n \in 0..MaxJoinRows}

GetCombinedStatistics ==
    /\ pc = "analyze"
    /\ args.op = "get_combined_statistics"
    /\ ret' = get_combined_statistics(race_results, weather_data)
    /\ pc' = "analyzed"
    /\ UNCHANGED <<crawlVars, parseVars, storeVars, args, log>>

\* the tables handed to extract_rider_performances
RiderTables ==
    LET rows == {RiderRow(RiderNames[n], y, c) :
                    n \in 1..Len(RiderNames), y \in StatsYears,
                    c \in {None, Some(100), Some(200)}}
    IN  UNION {[1..n -> rows] : n \in 0..MaxRiderRows}

ExtractRiderPerformances ==
    /\ pc = "analyze"
    /\ args.op = "extract_rider_performances"
    /\ ret' = extract_rider_performances(race_results)
    /\ pc' = "analyzed"
    /\ UNCHANGED <<crawlVars, parseVars, storeVars, args, log>>

\* times[idx] with idx = int(len(times) * p / 100), capped at the last
\* index: DiabloDatabase.get_percentiles_by_year, lines 293-298
percentile_by_index(times, p) ==
    LET idx == (Len(times) * p) \div 100
    IN  times[(IF idx >= Len(times) THEN Len(times) - 1 ELSE idx) + 1]

\* DiabloDatabase.get_percentiles_by_year(year), lines 274-300, with the
\* default percentiles: {} for a year without chip times
get_percentiles_by_year(rr, y) ==
    LET timed == SelectSeq(rr, LAMBDA row : row.year = y /\ notna(row))
        times == SortedValues([i \in 1..Len(timed) |->
                                  timed[i].chip_time_seconds.val])
    IN  IF times = <<>> THEN <<>>
        ELSE [p25 |-> percentile_by_index(times, 25),
              p50 |-> percentile_by_index(times, 50),
              p75 |-> percentile_by_index(times, 75)]

\* the race_results tables on which the two computations of the
\* percentiles are set side by side: rows of one year
PercentileTables ==
    UNION {[1..n -> {StatsRow(2024, c) : c \in ChipTimes}] : n \in 0..MaxRows}

\* both computations on the same stored rows
GetPercentilesByYear ==
    /\ pc = "analyze"
    /\ args.op = "get_percentiles_by_year"
    /\ ret' = [percentiles |-> get_percentiles_by_year(race_results, args.year),
               yearly |-> calculate_yearly_statistics(race_results)]
    /\ pc' = "analyzed"
    /\ UNCHANGED <<crawlVars, parseVars, storeVars, args, log>>

CalculateYearlyStatistics ==
    /\ pc = "analyze"
    /\ args.op = "calculate_yearly_statistics"
    /\ ret' = calculate_yearly_statistics(race_results)
    /\ pc' = "analyzed"
    /\ UNCHANGED <<crawlVars, parseVars, storeVars, args, log>>

InitStats ==
    /\ pc = "analyze"
    /\ CrawlIdle /\ ParseIdle
    /\ last_call = NoCall /\ repeated = FALSE /\ prev_db = EmptyDb
    /\ calls = 0 /\ log = {}
    /\ ret = NotReturned
    /\ \/ /\ args = [op |-> "calculate_yearly_statistics"]
          /\ race_results \in RaceTables
          /\ weather_data = <<>>
       \/ /\ args = [op |-> "extract_rider_performances"]
          /\ race_results \in RiderTables
          /\ weather_data = <<>>
       \/ /\ args = [op |-> "get_percentiles_by_year", year |-> 2024]
          /\ race_results \in PercentileTables
          /\ weather_data = <<>>
       \/ /\ args \in {[op |-> "get_combined_statistics"],
                      [op |-> "generate_dashboard_data"]}
          /\ race_results \in JoinRaceTables
          /\ weather_data \in WeatherTables
       \/ /\ args \in {[op |-> "calculate_correlation", x_values |-> xs,
                       y_values |-> ys] : xs \in Series, ys \in Series}
          /\ race_results = <<>>
          /\ weather_data = <<>>

NextStats ==
    \/ CalculateYearlyStatistics
    \/ GetCombinedStatistics
    \/ CalculateCorrelation
    \/ GetPercentilesByYear
    \/ GenerateDashboardData
    \/ ExtractRiderPerformances

SpecStats == InitStats /\ [][NextStats]_vars

-----------------------------------------------------------------------------
(* The yearly statistics are those of the non-null chip times *)

\* the rows of year y with a chip time, by their place in the table
Timed(y) ==
    {i \in 1..Len(race_results) :
        race_results[i].year = y /\ race_results[i].chip_time_seconds.some}

TimeAt(i) == race_results[i].chip_time_seconds.val

RECURSIVE Total(_)
Total(places) ==
    IF places = {} THEN 0
    ELSE LET i == CHOOSE j \in places : TRUE
         IN  TimeAt(i) + Total(places \ {i})

\* the j-th of the chip times of the places in ascending order, from 0
OrderStatistic(places, j) ==
    TimeAt(CHOOSE i \in places :
              /\ Cardinality({h \in places : TimeAt(h) < TimeAt(i)}) <= j
              /\ j < Cardinality({h \in places : TimeAt(h) <= TimeAt(i)}))

\* r is the value at position (n - 1) * k / 4 of the chip times in
\* ascending order, interpolated linearly between its two neighbours
IsQuantile(r, places, k) ==
    LET n  == Cardinality(places)
        lo == ((n - 1) * k) \div 4
        fr == ((n - 1) * k) % 4
        a  == OrderStatistic(places, lo)
        b  == OrderStatistic(places, IF lo + 1 < n THEN lo + 1 ELSE lo)
    IN  RatioIs(r, 4 * a + fr * (b - a), 4)

IsMedian(r, places) ==
    LET n == Cardinality(places)
    IN  RatioIs(r, OrderStatistic(places, (n - 1) \div 2)
                     + OrderStatistic(places, n \div 2), 2)

StatsOfYear(y) == {i \in 1..Len(ret) : ret[i].year = y}

YearlyDone == pc = "analyzed" /\ args.op = "calculate_yearly_statistics"

\* C14: calculate_yearly_statistics gives exactly one row for each year that
\* has a non-null chip time and none for another year; its count, mean,
\* median, min and max are those of the year's non-null chip times; p25 and
\* p75 are the values at position (n-1)*p of the sorted chip times by linear
\* interpolation; the rows with a null chip time change nothing.
C14_YearlyStatistics ==
    YearlyDone =>
      /\ \A y \in StatsYears :
            Cardinality(StatsOfYear(y)) = IF Timed(y) = {} THEN 0 ELSE 1
      /\ \A i \in 1..Len(ret) :
            LET row    == ret[i]
                places == Timed(row.year)
            IN  /\ row.year \in StatsYears
                /\ row.count = Cardinality(places)
                /\ RatioIs(row.mean, Total(places), Cardinality(places))
                /\ IsMedian(row.median, places)
                /\ row.min = OrderStatistic(places, 0)
                /\ row.max = OrderStatistic(places, Cardinality(places) - 1)
                /\ IsQuantile(row.p25, places, 1)
                /\ IsQuantile(row.p75, places, 3)
      /\ ret = calculate_yearly_statistics(SelectSeq(race_results, notna))

\* the case of C14: the chip times of a year are 100, 200, 300 and 400 and
\* the row of the year has median 250, p25 175, p75 325, min 100, max 400
C14_Witness ==
    /\ YearlyDone
    /\ {TimeAt(i) : i \in Timed(2024)} = {100, 200, 300, 400}
    /\ Len(ret) = 1
    /\ ret[1].year = 2024 /\ ret[1].count = 4
    /\ RatioIs(ret[1].mean, 250, 1)
    /\ RatioIs(ret[1].median, 250, 1)
    /\ RatioIs(ret[1].p25, 175, 1)
    /\ RatioIs(ret[1].p75, 325, 1)
    /\ ret[1].min = 100 /\ ret[1].max = 400

\* the case of the null rows: a year has a row without a chip time next to
\* rows with one, another year has only rows without
C14_WitnessNull ==
    /\ YearlyDone
    /\ \E i \in 1..Len(race_results) :
          race_results[i].year = 2024 /\ ~notna(race_results[i])
    /\ Cardinality(Timed(2024)) = 2
    /\ Timed(2025) = {}
    /\ \E i \in 1..Len(race_results) : race_results[i].year = 2025
    /\ Len(ret) = 1 /\ ret[1].count = 2

-----------------------------------------------------------------------------
(* The combined statistics keep every year of the race statistics *)

CombinedDone == pc = "analyzed" /\ args.op = "get_combined_statistics"

CombinedOfYear(y) == {i \in 1..Len(ret) : ret[i].year = y}

WeatherRowsOf(y) == {i \in 1..Len(weather_data) : weather_data[i].year = y}

\* C16: get_combined_statistics returns exactly one row for every year of
\* the race statistics and none for another year, with or without weather
\* rows for the year; the row carries the race statistics of the year, and
\* the weather fields of a year without weather rows are all null.
C16_OneRowPerRaceYear ==
    CombinedDone =>
      LET race_stats == calculate_yearly_statistics(race_results)
      IN  /\ Len(ret) = Len(race_stats)
          /\ \A i \in 1..Len(race_stats) :
                /\ CombinedOfYear(race_stats[i].year) = {i}
                /\ ret[i].race = race_stats[i]
                /\ WeatherRowsOf(ret[i].year) = {} =>
                      \A c \in DOMAIN ret[i].weather : ret[i].weather[c] = None
          /\ \A y \in StatsYears :
                Cardinality(CombinedOfYear(y)) =
                    IF Timed(y) = {} THEN 0 ELSE 1

\* the case of C16: two years have race statistics, only one of them has
\* weather rows; the other is returned with weather fields that are null
C16_Witness ==
    /\ CombinedDone
    /\ Len(ret) = 2
    /\ ret[1].year = 2024 /\ ret[2].year = 2025
    /\ WeatherRowsOf(2024) # {} /\ WeatherRowsOf(2025) = {}
    /\ \E c \in DOMAIN ret[1].weather : ret[1].weather[c] # None
    /\ DOMAIN ret[2].weather # {}
    /\ \A c \in DOMAIN ret[2].weather : ret[2].weather[c] = None

-----------------------------------------------------------------------------
(* The correlation of the pairs that are present *)

CorrelationDone == pc = "analyzed" /\ args.op = "calculate_correlation"

\* the index positions where both sequences hold a value
Kept ==
    {i \in 1..Len(args.x_values) \cap 1..Len(args.y_values) :
        args.x_values[i].some /\ args.y_values[i].some}

X(i) == args.x_values[i].val
Y(i) == args.y_values[i].val

RECURSIVE SumOver(_, _)
SumOver(places, f) ==
    IF places = {} THEN 0
    ELSE LET i == CHOOSE j \in places : TRUE
         IN  f[i] + SumOver(places \ {i}, f)

\* n * sum(u v) - sum(u) sum(v) over the kept positions
Moment(u, v) ==
    Cardinality(Kept) * SumOver(Kept, [i \in Kept |-> u[i] * v[i]])
      - SumOver(Kept, u) * SumOver(Kept, v)

KeptX == [i \in Kept |-> X(i)]
KeptY == [i \in Kept |-> Y(i)]

\* ret is the Pearson coefficient of the kept pairs in thousandths
IsPearson ==
    /\ ret.some
    /\ Moment(KeptX, KeptX) * Moment(KeptY, KeptY) > 0
    /\ RoundsTo(ret.val, Moment(KeptX, KeptY),
                Moment(KeptX, KeptX) * Moment(KeptY, KeptY))

\* C15 (as claimed): calculate_correlation pairs the sequences by index and
\* keeps the positions where both values are present; with fewer than two
\* such pairs it returns None, otherwise the Pearson coefficient of the
\* kept pairs rounded to three decimals.
C15_CorrelationOrNone ==
    CorrelationDone =>
        IF Cardinality(Kept) < 2 THEN ret = None ELSE IsPearson

\* C15, the part that holds: None with fewer than two kept pairs; the
\* rounded Pearson coefficient when both kept series vary, which is 1.0 for
\* a series and the same series shifted or doubled; and a float that is not
\* a number when two or more pairs are kept and one of the series is
\* constant.
C15_WhenSeriesVary ==
    CorrelationDone =>
        /\ Cardinality(Kept) < 2 => ret = None
        /\ (/\ Cardinality(Kept) >= 2
            /\ Moment(KeptX, KeptX) > 0
            /\ Moment(KeptY, KeptY) > 0) => IsPearson
        /\ (/\ Cardinality(Kept) >= 2
            /\ Moment(KeptX, KeptX) > 0
            /\ \/ \A i \in Kept : Y(i) = X(i) + 1
               \/ \A i \in Kept : Y(i) = 2 * X(i))
              => ret = Some(Thousandths)
        /\ (/\ Cardinality(Kept) >= 2
            /\ Moment(KeptX, KeptX) * Moment(KeptY, KeptY) = 0) => ret = NaN

\* the case of C15: three kept pairs whose coefficient is one half
C15_Witness ==
    /\ CorrelationDone
    /\ Cardinality(Kept) = 3
    /\ IsPearson
    /\ ret = Some(500)

\* sequences of different lengths, the longer with a null: the two pairs
\* that are kept give -1.0
C15_WitnessUneven ==
    /\ CorrelationDone
    /\ Len(args.x_values) > Len(args.y_values)
    /\ \E i \in 1..Len(args.x_values) : ~args.x_values[i].some
    /\ Cardinality(Kept) = 2
    /\ IsPearson
    /\ ret = Some(-Thousandths)

\* two pairs of which one has a null: None
C15_WitnessNone ==
    /\ CorrelationDone
    /\ Len(args.x_values) = 2 /\ Len(args.y_values) = 2
    /\ Cardinality(Kept) = 1
    /\ ret = None

-----------------------------------------------------------------------------
(* The form of a pagination POST *)

ControlFields == {"__EVENTTARGET", "__EVENTARGUMENT"}

\* the inputs of the page that give a field of the form: named, not a
\* control field, and the last of their name
FormInputs(page) ==
    {i \in 1..Len(page.inputs) :
        /\ page.inputs[i].name \notin ControlFields \cup {""}
        /\ \A j \in (i + 1)..Len(page.inputs) :
              page.inputs[j].name # page.inputs[i].name}

\* C21: every pagination POST of scrape_year goes to the URL of the year
\* being crawled and carries every named input of the page fetched last
\* (the page the crawl is at, whose state is that of its page number), ''
\* for an input without a value, and the two control fields __EVENTTARGET
\* and __EVENTARGUMENT, which win over inputs of the page of the same name.
C21_PostCarriesCurrentPage ==
    [][requests' # requests /\ requests' # <<>> /\ pc = "loop" =>
        LET data == form_data'.data
        IN  /\ requests' = Append(requests, "POST")
            /\ form_data'.url_year = year /\ year = years[yi]
            /\ DOMAIN data =
                 {soup.inputs[i].name : i \in FormInputs(soup)}
                    \cup ControlFields
            /\ \A i \in FormInputs(soup) :
                  data[soup.inputs[i].name] =
                     IF soup.inputs[i].has_value THEN soup.inputs[i].value
                     ELSE ""
            /\ data["__EVENTTARGET"] = "ctl00$ContentPlaceHolder1$btnNext"
            /\ data["__EVENTARGUMENT"] = ""
            /\ soup.inputs = ServerInputs(Len(requests))
            /\ data["__VIEWSTATE"] = ToString(Len(requests) + 1)]_vars

\* the case of C21: the second POST of a year, sent from its second page,
\* whose inputs hold a stale __EVENTTARGET and an input without a value
C21_Witness ==
    /\ form_data # NoPost
    /\ requests = <<"GET", "POST", "POST">>
    /\ form_data.url_year = year
    /\ form_data.data["__VIEWSTATE"] = "3"
    /\ form_data.data["search"] = ""
    /\ form_data.data["__EVENTTARGET"] = "ctl00$ContentPlaceHolder1$btnNext"
    /\ \E i \in 1..Len(ServerInputs(2)) :
          /\ ServerInputs(2)[i].name = "__EVENTTARGET"
          /\ ServerInputs(2)[i].value = "stale"

-----------------------------------------------------------------------------
(* parse_results_table on generated tables *)

\* <tr> rows of a generated table
MaxTableRows == 4

RowKinds == {"full", "padded", "raising", "short", "twelve", "fourteen"}

\* the cells of the i-th <tr> of a table, of a kind; the name cell tells
\* the kind and the position
RowOf(kind, i) ==
    LET place == CASE kind = "padded"   -> <<" ", "7", "\n">>
                   [] kind = "raising"  -> <<"1", "sup2">>
                   [] kind = "fourteen" -> <<"7", "x">>
                   [] OTHER             -> <<"7">>
        age   == CASE kind = "padded"   -> <<"x">>
                   [] kind = "fourteen" -> <<>>
                   [] OTHER             -> <<"4", "0">>
        cells == <<place, <<kind, ToString(i)>>, <<"t">>, <<>>, <<"F">>,
                   <<"2">>, age, <<>>, <<>>, Text_5_30, <<"p">>, <<>>,
                   <<"8", " ">>, <<"more">>>>
    IN  CASE kind = "short"    -> SubSeq(cells, 1, 2)
          [] kind = "twelve"   -> SubSeq(cells, 1, 12)
          [] kind = "fourteen" -> cells
          [] OTHER             -> SubSeq(cells, 1, 13)

\* the pages handed to parse_results_table: with a table of up to
\* MaxTableRows rows of any kinds, or without the table
TablePages ==
    {[table |-> FALSE, trs |-> <<>>, next |-> FALSE, inputs |-> <<>>,
      text |-> <<>>]}
    \cup {[table |-> TRUE, trs |-> [i \in 1..Len(kinds) |-> RowOf(kinds[i], i)],
           next |-> FALSE, inputs |-> <<>>, text |-> <<>>] :
            kinds \in UNION {[1..n -> RowKinds] : n \in 0..MaxTableRows}}

\* parse_results_table(soup, year) is called
ParseResultsTable ==
    /\ pc = "table"
    /\ \E out \in {parse_results_table(soup, year)} :
          /\ page_results' = out.rows
          /\ log' = out.log
    /\ pc' = "tabled"
    /\ UNCHANGED <<years, yi, year, soup, race_date, page_num, all_results,
                   results, requests, form_data, served, parseVars,
                   storeVars, callVars>>

InitTable ==
    /\ pc = "table"
    /\ soup \in TablePages
    /\ year \in {2024, 0}
    /\ years = <<>> /\ yi = 0 /\ race_date = None /\ page_num = 0
    /\ page_results = <<>> /\ all_results = <<>> /\ results = <<>>
    /\ requests = <<>> /\ form_data = NoPost /\ served = <<>>
    /\ ParseIdle /\ StoreIdle /\ CallIdle
    /\ log = {}

NextTable == ParseResultsTable

SpecTable == InitTable /\ [][NextTable]_vars

-----------------------------------------------------------------------------
(* The rows parse_results_table returns *)

\* the text has digits 0-9 only, and at least one
PurelyNumeric(text) ==
    text # <<>> /\ \A i \in 1..Len(text) : text[i] \in Digit

\* the text is taken for a number by isdigit and refused by int
Unconvertible(text) ==
    /\ text # <<>>
    /\ \A i \in 1..Len(text) : text[i] \in Digit \cup OtherDigit
    /\ ~PurelyNumeric(text)

\* the <tr> rows that give a result: not the first, 13 cells or more, and
\* no place or age that makes the conversion raise
GivingRows ==
    {i \in 2..Len(soup.trs) :
        /\ Len(soup.trs[i]) >= 13
        /\ ~Unconvertible(Strip(soup.trs[i][1]))
        /\ ~Unconvertible(Strip(soup.trs[i][7]))}

\* the j-th of them in table order
GivingRow(j) ==
    CHOOSE i \in GivingRows : Cardinality({h \in GivingRows : h < i}) = j - 1

\* the whole number a purely numeric text spells
RECURSIVE Spelled(_)
Spelled(text) ==
    IF text = <<>> THEN 0
    ELSE 10 * Spelled(SubSeq(text, 1, Len(text) - 1))
           + (CHOOSE d \in 0..9 : ToString(d) = text[Len(text)])

IntOrNull(text) ==
    IF PurelyNumeric(Strip(text)) THEN Some(Spelled(Strip(text))) ELSE None

\* C22: parse_results_table returns in table order one row for each <tr>
\* after the first that has at least 13 cells and whose parsing does not
\* raise; the first <tr>, rows of fewer than 13 cells and raising rows are
\* skipped without stopping the rows after them; place and age are whole
\* numbers exactly when their trimmed cell text is purely numeric and null
\* otherwise; a page without the table gives the empty sequence.
C22_RowsOfTable ==
    pc = "tabled" =>
        IF ~soup.table THEN page_results = <<>>
        ELSE /\ Len(page_results) = Cardinality(GivingRows)
             /\ \A j \in 1..Len(page_results) :
                   LET cells == soup.trs[GivingRow(j)]
                       row   == page_results[j]
                   IN  /\ row.year = year
                       /\ row.name = Strip(cells[2])
                       /\ row.place = IntOrNull(cells[1])
                       /\ row.age = IntOrNull(cells[7])
                       /\ row.chip_time_str = Strip(cells[10])
                       /\ row.start_time = Strip(cells[13])

\* the case of C22: after the first row, a short row and a raising row
\* stand before a row that is returned
C22_Witness ==
    /\ pc = "tabled" /\ soup.table
    /\ Len(soup.trs) = 4
    /\ Len(soup.trs[1]) >= 13
    /\ Len(soup.trs[2]) < 13
    /\ Len(soup.trs[3]) >= 13 /\ Unconvertible(Strip(soup.trs[3][1]))
    /\ GivingRows = {4}
    /\ Len(page_results) = 1
    /\ page_results[1].place = Some(7) /\ page_results[1].age = None

-----------------------------------------------------------------------------
(* Arrays shorter than the timestamps *)

Extracted == pc = "fetched" /\ args.op = "extract_race_window_data"

\* the array of a variable in the 'hourly' object handed over
ArrayOf(v) ==
    IF v \in DOMAIN args.hourly_data THEN args.hourly_data[v] ELSE <<>>

\* C23: in extract_race_window_data, when the array of a variable is
\* shorter than the timestamp array or absent, every record of the window
\* whose position is beyond the end of that array has None for the variable,
\* and the value of the array at its position otherwise; nothing is raised
\* and the records are one for each timestamp of the window, whatever the
\* arrays of the variables.
C23_ShortArraysGiveNone ==
    Extracted =>
        /\ Len(ret.records) = Cardinality(WindowPositions)
        /\ \A k \in 1..Len(ret.records) :
              /\ ret.records[k].timestamp = args.moments[WindowPosition(k)]
              /\ \A v \in WeatherVariables :
                    ret.records[k][v] =
                       IF WindowPosition(k) <= Len(ArrayOf(v))
                       THEN ArrayOf(v)[WindowPosition(k)]
                       ELSE None

\* the case of C23: two records of the window, the first inside the
\* temperature array and the second beyond its end; the wind speed array is
\* empty and the wind direction has no key
C23_Witness ==
    /\ Extracted
    /\ "winddirection_10m" \notin DOMAIN args.hourly_data
    /\ Len(ArrayOf("temperature_2m")) = 1
    /\ WindowPositions = {1, 3}
    /\ Len(ret.records) = 2
    /\ ret.records[1].temperature_2m = Some(51)
    /\ ret.records[2].temperature_2m = None
    /\ ret.records[1].windspeed_10m = None
    /\ ret.records[2].winddirection_10m = None
    /\ ret.records[2].wind_gusts_10m = Some(6)

-----------------------------------------------------------------------------
(* The two computations of a year's percentiles *)

PercentilesDone == pc = "analyzed" /\ args.op = "get_percentiles_by_year"

\* C24 (as claimed): for the same stored rows of a year,
\* get_percentiles_by_year gives as p25, p50 and p75 the p25, median and p75
\* of calculate_yearly_statistics, that is the values interpolated linearly
\* between order statistics and not those at the index floor(n*p/100).
C24_SamePercentiles ==
    (PercentilesDone /\ Timed(args.year) # {}) =>
        /\ Len(ret.yearly) = 1
        /\ RatioIs(ret.yearly[1].p25, ret.percentiles.p25, 1)
        /\ RatioIs(ret.yearly[1].median, ret.percentiles.p50, 1)
        /\ RatioIs(ret.yearly[1].p75, ret.percentiles.p75, 1)

\* what get_percentiles_by_year gives instead: the chip time at index
\* floor(n*p/100) of the sorted chip times of the year (the last when the
\* index is n), which is 200, 300 and 400 for 100, 200, 300, 400
C24_NearestRank ==
    (PercentilesDone /\ Timed(args.year) # {}) =>
        LET places == Timed(args.year)
            n == Cardinality(places)
        IN  /\ ret.percentiles.p25 = OrderStatistic(places, (n * 25) \div 100)
            /\ ret.percentiles.p50 = OrderStatistic(places, (n * 50) \div 100)
            /\ ret.percentiles.p75 = OrderStatistic(places, (n * 75) \div 100)
            /\ {TimeAt(i) : i \in places} = {100, 200, 300, 400} =>
                  /\ ret.percentiles = [p25 |-> 200, p50 |-> 300, p75 |-> 400]
                  /\ RatioIs(ret.yearly[1].p25, 175, 1)
                  /\ RatioIs(ret.yearly[1].median, 250, 1)
                  /\ RatioIs(ret.yearly[1].p75, 325, 1)

C24_NearestRankWitness ==
    /\ PercentilesDone
    /\ {TimeAt(i) : i \in Timed(args.year)} = {100, 200, 300, 400}
    /\ ret.percentiles = [p25 |-> 200, p50 |-> 300, p75 |-> 400]

-----------------------------------------------------------------------------
(* The wind correlation of the dashboard *)

DashboardDone ==
    pc = "analyzed" /\ args.op = "generate_dashboard_data" /\ ret # Raised

\* the summit rows of a year that hold a wind speed
SummitWind(y) ==
    {i \in 1..Len(weather_data) :
        /\ weather_data[i].year = y
        /\ weather_data[i].location = "summit"
        /\ weather_data[i].windspeed_10m.some}

\* the years that have both a median chip time and a summit wind speed, in
\* ascending order
YearsWithBoth ==
    SelectSeq(<<2024, 2025>>,
              LAMBDA y : Timed(y) # {} /\ SummitWind(y) # {})

\* the two values of such a year, as the dashboard rounds them
MedianOf(y) ==
    ret.median_times[CHOOSE i \in 1..Len(ret.years) : ret.years[i] = y]
WindOf(y) ==
    LET rows == SummitWind(y)
        RECURSIVE Total_wind(_)
        Total_wind(S) ==
            IF S = {} THEN 0
            ELSE LET i == CHOOSE j \in S : TRUE
                 IN  weather_data[i].windspeed_10m.val + Total_wind(S \ {i})
    IN  Some(RoundedTo(Total_wind(rows), Cardinality(rows), 1))

\* C25 (as claimed): the wind correlation of generate_dashboard_data is
\* that of the years having both a median chip time and a summit average
\* wind speed, aligned year by year; a year with race results and no summit
\* weather is left out, and with fewer than two years having both the
\* correlation is None.
C25_OnlyYearsWithBoth ==
    DashboardDone =>
        /\ ret.wind_correlation =
              calculate_correlation(
                  [i \in 1..Len(YearsWithBoth) |-> WindOf(YearsWithBoth[i])],
                  [i \in 1..Len(YearsWithBoth) |-> MedianOf(YearsWithBoth[i])])
        /\ Len(YearsWithBoth) < 2 => ret.wind_correlation = None

\* C25, the part that holds: the two series are aligned year by year; when
\* no year has a summit wind speed the correlation is None; when every year
\* of the race statistics has one, it is the correlation of all years; and
\* when some have one and others not, the result is nan for two or more
\* years of race statistics.
C25_AlignedAndNan ==
    DashboardDone =>
        /\ Len(ret.summit_wind_speeds) = Len(ret.years)
        /\ Len(ret.median_times) = Len(ret.years)
        /\ \A i \in 1..Len(ret.years) :
              ret.summit_wind_speeds[i] =
                 IF SummitWind(ret.years[i]) # {} THEN WindOf(ret.years[i])
                 ELSE IF \E y \in StatsYears : SummitWind(y) # {} THEN NaN
                 ELSE None
        /\ (\A y \in StatsYears : SummitWind(y) = {}) =>
              ret.wind_correlation = None
        /\ (\A i \in 1..Len(ret.years) : SummitWind(ret.years[i]) # {}) =>
              ret.wind_correlation =
                 calculate_correlation(
                    [i \in 1..Len(ret.years) |-> WindOf(ret.years[i])],
                    ret.median_times)
        /\ (/\ Len(ret.years) >= 2
            /\ \E i \in 1..Len(ret.years) : SummitWind(ret.years[i]) = {}
            /\ \E y \in StatsYears : SummitWind(y) # {}) =>
              ret.wind_correlation = NaN

\* two years with both values give a coefficient
C25_Witness ==
    /\ DashboardDone
    /\ YearsWithBoth = <<2024, 2025>>
    /\ ret.wind_correlation \in {Some(Thousandths), Some(-Thousandths)}

\* a year with race results and no summit weather next to a year with both
C25_WitnessMissing ==
    /\ DashboardDone
    /\ ret.years = <<2024, 2025>>
    /\ YearsWithBoth = <<2024>>
    /\ ret.summit_wind_speeds[2] = NaN
    /\ ret.wind_correlation = NaN

-----------------------------------------------------------------------------
(* The riders with several years *)

RidersDone == pc = "analyzed" /\ args.op = "extract_rider_performances"

\* the rows of a name that have a chip time
RowsOfRider(nm) ==
    {i \in 1..Len(race_results) :
        race_results[i].name = nm /\ race_results[i].chip_time_seconds.some}

YearsOfRider(nm) == {race_results[i].year : i \in RowsOfRider(nm)}

SortedByYear(performances) ==
    \A i \in 1..Len(performances), j \in 1..Len(performances) :
        i < j => performances[i].year <= performances[j].year

\* C26 (as claimed): every entry of extract_rider_performances has
\* performances in at least two distinct years, years_participated is the
\* number of distinct years of the rider, and the performances are sorted by
\* year, also when a name occurs more than once in a year.
C26_TwoDistinctYears ==
    RidersDone =>
        \A k \in 1..Len(ret) :
            /\ Cardinality({ret[k].performances[i].year :
                               i \in 1..Len(ret[k].performances)}) >= 2
            /\ ret[k].years_participated =
                  Cardinality(YearsOfRider(ret[k].name))
            /\ SortedByYear(ret[k].performances)

\* C26, the part that holds: an entry is made for a name with two rows or
\* more, years_participated counts the rows, and the performances are
\* sorted by year; when no name occurs twice in a year the entries are as
\* claimed.
C26_TwoRows ==
    RidersDone =>
        /\ {ret[k].name : k \in 1..Len(ret)} =
              {nm \in {"ann", "bob"} : Cardinality(RowsOfRider(nm)) >= 2}
        /\ \A k \in 1..Len(ret) :
              /\ ret[k].years_participated =
                    Cardinality(RowsOfRider(ret[k].name))
              /\ Len(ret[k].performances) = ret[k].years_participated
              /\ SortedByYear(ret[k].performances)
              /\ Cardinality(RowsOfRider(ret[k].name)) =
                    Cardinality(YearsOfRider(ret[k].name)) =>
                    /\ Cardinality(YearsOfRider(ret[k].name)) >= 2
                    /\ ret[k].years_participated =
                          Cardinality(YearsOfRider(ret[k].name))

\* a rider of two years, the later year stored first
C26_Witness ==
    /\ RidersDone
    /\ Len(race_results) = 3
    /\ race_results[1].name = "bob" /\ race_results[1].year = 2025
    /\ race_results[2].name = "ann"
    /\ race_results[3].name = "bob" /\ race_results[3].year = 2024
    /\ Len(ret) = 1 /\ ret[1].name = "bob" /\ ret[1].years_participated = 2
    /\ ret[1].performances[1].year = 2024

\* a name twice in one year and in no other
C26_WitnessSameYear ==
    /\ RidersDone
    /\ Cardinality(RowsOfRider("ann")) = 2
    /\ YearsOfRider("ann") = {2024}
    /\ Len(ret) = 1 /\ ret[1].years_participated = 2


-----------------------------------------------------------------------------
(* What a replacing insert leaves alone *)

\* the step is a call of op with replace_existing=True
ReplacingStep(op) ==
    /\ calls' = calls + 1
    /\ last_call'.op = op
    /\ last_call'.replace_existing

\* the rows of the years absent from the batch are the same after the step
OtherYearsKept(before, after, batch) ==
    \A y \in BatchYears :
        y \notin YearsOf(batch) => RowsOfYear(after, y) = RowsOfYear(before, y)

\* C27: insert_race_results(batch, replace_existing=True) leaves every
\* race_results row of a year absent from the batch and every weather_data
\* row unchanged; insert_weather_data(batch, replace_existing=True) leaves
\* every race_results row and every weather_data row of a year absent from
\* the batch unchanged; with an empty batch either call changes nothing.
C27_ReplaceTouchesBatchYearsOnly ==
    [][/\ ReplacingStep("insert_race_results") =>
            /\ weather_data' = weather_data
            /\ OtherYearsKept(race_results, race_results', last_call'.batch)
            /\ last_call'.batch = <<>> => race_results' = race_results
       /\ ReplacingStep("insert_weather_data") =>
            /\ race_results' = race_results
            /\ OtherYearsKept(weather_data, weather_data', last_call'.batch)
            /\ last_call'.batch = <<>> => weather_data' = weather_data]_vars

\* the case of C27: a replacing insert of race rows of one year into a store
\* that holds race rows of that year and of another, and weather rows of the
\* batch's year, which are still there
C27_Witness ==
    /\ last_call.op = "insert_race_results" /\ last_call.replace_existing
    /\ YearsOf(last_call.batch) = {2024}
    /\ year_exists(race_results, 2025)
    /\ Len(RowsOfYear(race_results, 2024)) = Len(last_call.batch)
    /\ year_exists(weather_data, 2024)

\* a replacing insert of weather rows of one year into a store that holds
\* weather rows of another year
C27_WitnessWeather ==
    /\ last_call.op = "insert_weather_data" /\ last_call.replace_existing
    /\ YearsOf(last_call.batch) = {2024}
    /\ year_exists(race_results, 2024)
    /\ year_exists(weather_data, 2025)
    /\ RowsOfYear(weather_data, 2024) = StoredWeather(last_call.batch)


-----------------------------------------------------------------------------
(* A crawl without rows deletes nothing *)

\* the step is a run of main.py that crawls, without --force
CrawlingMainStep ==
    /\ calls' = calls + 1
    /\ last_call'.op = "main"
    /\ last_call'.mode \in {"scrape_only", "full"}
    /\ ~last_call'.force

\* the step is a run of update_year.py whose crawl returned no rows
EmptyUpdateStep ==
    /\ calls' = calls + 1
    /\ last_call'.op = "update_year_main"
    /\ last_call'.scraped = <<>>

\* C28: without --force, update_year whose crawl returns no rows returns False
\* and leaves both tables as they are, and a run of main.py that crawls
\* leaves, in both tables, the rows of every year that has no row in the
\* scraped batch as they are.
C28_EmptyCrawlDeletesNothing ==
    [][/\ EmptyUpdateStep =>
            /\ ~last_call'.ret
            /\ race_results' = race_results /\ weather_data' = weather_data
       /\ CrawlingMainStep =>
            \A y \in ScriptYears :
                y \notin YearsOf(scrape_all_years(last_call'.scraped, 1)) =>
                    /\ RowsOfYear(race_results', y) = RowsOfYear(race_results, y)
                    /\ RowsOfYear(weather_data', y) = RowsOfYear(weather_data, y)]_vars

\* the case of C28: main.py crawled two years without --force, the first
\* gave no rows and the second did; the store still holds the race rows and
\* the weather rows of the first
C28_Witness ==
    /\ last_call.op = "main" /\ last_call.mode = "full" /\ ~last_call.force
    /\ last_call.years = RACE_YEARS
    /\ last_call.scraped[1] = <<>> /\ last_call.scraped[2] # <<>>
    /\ year_exists(race_results, 2024) /\ year_exists(weather_data, 2024)
    /\ year_exists(race_results, 2025)

\* update_year crawled a stored year with replace=True and got no rows
C28_WitnessUpdate ==
    /\ last_call.op = "update_year_main" /\ last_call.replace
    /\ last_call.scraped = <<>> /\ last_call.scrapes = 1
    /\ ~last_call.ret
    /\ year_exists(race_results, last_call.year)
    /\ year_exists(weather_data, last_call.year)


-----------------------------------------------------------------------------
(* The weather rows of a year after update_year *)

\* the last call was update_year and it returned True
UpdateSucceeded == last_call.op = "update_year" /\ last_call.ret

\* the weather records update_year fetched in its last run
FetchedInRun ==
    WeatherRecords(last_call.year, last_call.scraped[1].race_date,
                   last_call.answers, 1)

\* C29 (as claimed): after update_year(year) returns True the weather_data
\* rows of the year are exactly the weather records fetched in that run,
\* also when the fetch returned no records.
C29_WeatherOfThisRun ==
    UpdateSucceeded =>
        RowsOfYear(weather_data, last_call.year) = StoredWeather(FetchedInRun)

\* C29, what holds: the same, when the run fetched a record or more
C29_WhenRecordsFetched ==
    (UpdateSucceeded /\ FetchedInRun # <<>>) =>
        RowsOfYear(weather_data, last_call.year) = StoredWeather(FetchedInRun)

\* the case of C29_WhenRecordsFetched: one location gave records, the other
\* none, and the run before had stored records of both
C29_WhenFetchedWitness ==
    /\ UpdateSucceeded /\ calls >= 2
    /\ FetchedInRun # <<>>
    /\ \E l \in 1..Len(Locations) : last_call.answers[l] = NoHourly
    /\ \E l \in 1..Len(Locations) : last_call.answers[l] # NoHourly

\* update_year returned True with no record fetched and weather rows of the
\* year are in the store
C29_StaleWitness ==
    /\ UpdateSucceeded
    /\ FetchedInRun = <<>>
    /\ year_exists(weather_data, last_call.year)


-----------------------------------------------------------------------------
(* Year and race date of the rows of a year *)

\* all_results begins with the rows list
StartsWith(list, rows) ==
    Len(rows) <= Len(list) /\ SubSeq(list, 1, Len(rows)) = rows

\* C30: every row scrape_year has accumulated or returns has the requested
\* year and the race date resolved from the year's landing page, null or not;
\* a page obtained by pagination changes neither that date nor a row already
\* accumulated.
C30_OneYearOneDate ==
    [][/\ pc' \in {"loop", "ret"} =>
            \A i \in 1..Len(all_results') :
                /\ all_results'[i].year = year'
                /\ all_results'[i].race_date = served'[Len(served')].date
       /\ pc = "loop" =>
            /\ race_date' = race_date
            /\ served'[Len(served')].date = Current.date
            /\ StartsWith(all_results', all_results)]_vars

\* the case of C30: two pages gave rows, the text of the second carries
\* another date than the landing page, and all rows carry the landing date
C30_Witness ==
    /\ pc = "ret" /\ ServedExactly(2)
    /\ soup.text = TextOtherDate
    /\ race_date.some
    /\ get_race_date(soup).ret.some /\ get_race_date(soup).ret # race_date
    /\ all_results = YearRows(year, 2, race_date)
    /\ Len(all_results) > Len(PageRows[year, 1])

\* the landing page gave no date and the rows of both pages carry none
C30_WitnessNull ==
    /\ pc = "ret" /\ ServedExactly(2)
    /\ race_date = None /\ Current.date = None
    /\ get_race_date(soup).ret.some
    /\ Len(all_results) > Len(PageRows[year, 1])
    /\ \A i \in 1..Len(all_results) : all_results[i].race_date = None

=============================================================================
